---- MODULE Spec2Model ----
(***************************************************************************)
(* TRTS propagation core (operation_goldenrod): exact unreduced rationals, *)
(* the register state, the engine step, the psi transform, the koppa       *)
(* accrual and the microtick scheduler.                                    *)
(*                                                                         *)
(* A rational is a record [num, den] of two integers, exactly the pair of  *)
(* mpz_t the C code keeps; nothing is ever reduced.  A C function that     *)
(* mutates its argument and returns a bool is an operator that returns a   *)
(* record [ok, ...] holding the flag and the new value.                    *)
(***************************************************************************)
EXTENDS Integers, Sequences, FiniteSets, TLC

\* cfg: the Config of the run; st: the TRTS_State; mt: the microtick the
\* scheduler executes next; pc: where the caller stands; obs: what the last
\* call was given and returned; pushed: every value pushed on the koppa
\* history so far, oldest first.
VARIABLES cfg, st, mt, pc, obs, pushed

vars == <<cfg, st, mt, pc, obs, pushed>>

(***************************************************************************)
(* Bounds of the model.                                                    *)
(***************************************************************************)
\* A call is taken only while every component of the registers it reads is
\* at most MaxMag in absolute value (the C integers are unbounded).
MaxMag == 12

\* Number of ticks a scheduler run is configured with.
MaxTicks == 5

\* koppa_accrue is called only while fewer than MaxPushes values were pushed.
MaxPushes == 6

Abs(x) == IF x < 0 THEN -x ELSE x

Sgn(x) == IF x < 0 THEN -1 ELSE IF x > 0 THEN 1 ELSE 0

\* mpz_fdiv_q: quotient rounded towards minus infinity, for either sign of d.
FloorDiv(n, d) == IF d > 0 THEN n \div d ELSE (-n) \div (-d)

Rat(n, d) == [num |-> n, den |-> d]

(***************************************************************************)
(* rational.c                                                              *)
(***************************************************************************)
normalize_zero(q) == IF q.num = 0 THEN [q EXCEPT !.den = 0] ELSE q

rational_init == Rat(0, 1)

rational_set(src) == src

rational_set_si(n, d) == IF n = 0 THEN Rat(0, 0) ELSE Rat(n, d)

rational_set_components(num, den) == normalize_zero(Rat(num, den))

\* rational_add keeping a denominator the operands share.
rational_add_common_den(a, b) ==
    IF a.den = b.den
    THEN rational_set_components(a.num + b.num, a.den)
    ELSE rational_set_components(a.num * b.den + b.num * a.den, a.den * b.den)

\* rational_add treating a zero-rational operand as the neutral element.
rational_add_zero_neutral(a, b) ==
    IF b = Rat(0, 0) THEN a
    ELSE IF a = Rat(0, 0) THEN b
    ELSE rational_set_components(a.num * b.den + b.num * a.den, a.den * b.den)

rational_add(a, b) ==
    rational_set_components(a.num * b.den + b.num * a.den, a.den * b.den)

rational_sub(a, b) ==
    rational_set_components(a.num * b.den - b.num * a.den, a.den * b.den)

rational_mul(a, b) ==
    rational_set_components(a.num * b.num, a.den * b.den)

\* rational_div that also refuses a divisor with denominator 0.
rational_div_checks_den(r, a, b) ==
    IF b.num = 0 \/ b.den = 0
    THEN [ok |-> FALSE, r |-> r]
    ELSE [ok |-> TRUE, r |-> rational_set_components(a.num * b.den, a.den * b.num)]

\* r is the value the destination held before the call.
rational_div(r, a, b) ==
    IF b.num = 0
    THEN [ok |-> FALSE, r |-> r]
    ELSE [ok |-> TRUE, r |-> rational_set_components(a.num * b.den, a.den * b.num)]

rational_negate(q) == normalize_zero([q EXCEPT !.num = -q.num])

rational_abs(q) == normalize_zero(Rat(Abs(q.num), Abs(q.den)))

rational_is_zero(q) == q.num = 0

rational_denominator_zero(q) == q.den = 0

rational_floor(q) ==
    IF rational_denominator_zero(q)
    THEN q
    ELSE rational_set_si(FloorDiv(q.num, q.den), 1)

\* rational_mod giving the zero-rational for a zero modulus.
rational_mod_zero_result(a, b) ==
    IF rational_is_zero(b)
    THEN rational_set_si(0, 1)
    ELSE LET quotient == rational_floor(rational_div(rational_init, a, b).r)
             product  == rational_mul(b, quotient)
         IN  rational_sub(a, product)

rational_mod(a, b) ==
    IF rational_is_zero(b)
    THEN a
    ELSE LET quotient == rational_floor(rational_div(rational_init, a, b).r)
             product  == rational_mul(b, quotient)
         IN  rational_sub(a, product)

\* rational_delta with the operands exchanged.
rational_delta_reversed(a, b) == rational_sub(b, a)

rational_delta(a, b) == rational_sub(a, b)

rational_abs_num(q) == Abs(q.num)

rational_sgn(q) == Sgn(q.num)

rational_cmp(a, b) ==
    LET lhs == a.num * b.den
        rhs == b.num * a.den
    IN  IF lhs < rhs THEN -1 ELSE IF lhs > rhs THEN 1 ELSE 0

(***************************************************************************)
(* Primality of a magnitude, as mpz_probab_prime_p decides it for the      *)
(* magnitudes the model reaches (it is exact far beyond them).             *)
(***************************************************************************)
RECURSIVE NoDivisorFrom(_, _)
NoDivisorFrom(n, d) ==
    IF d * d > n THEN TRUE
    ELSE IF n % d = 0 THEN FALSE
    ELSE NoDivisorFrom(n, d + 1)

IsPrime(n) == n >= 2 /\ NoDivisorFrom(n, 2)

(***************************************************************************)
(* config.h / config.c                                                     *)
(***************************************************************************)
EngineTrackModes == {"ENGINE_TRACK_ADD", "ENGINE_TRACK_MULTI", "ENGINE_TRACK_SLIDE"}

EngineModes == {"ENGINE_MODE_ADD", "ENGINE_MODE_MULTI", "ENGINE_MODE_SLIDE",
                "ENGINE_MODE_DELTA_ADD"}

PsiModes == {"PSI_MODE_MSTEP", "PSI_MODE_RHO_ONLY", "PSI_MODE_MSTEP_RHO",
             "PSI_MODE_INHIBIT_RHO"}

KoppaModes == {"KOPPA_MODE_DUMP", "KOPPA_MODE_POP", "KOPPA_MODE_ACCUMULATE"}

KoppaTriggers == {"KOPPA_ON_PSI", "KOPPA_ON_MSTEP", "KOPPA_ON_ALL_MU",
                  "KOPPA_ON_MU_AFTER_PSI"}

\* config_init, with the three fields engine.c reads and config_init does
\* not set (enable_sign_flip, enable_epsilon_phi_triangle,
\* enable_modular_wrap) switched off.
config_init ==
    [ engine_mode                    |-> "ENGINE_MODE_ADD",
      engine_upsilon                 |-> "ENGINE_TRACK_ADD",
      engine_beta                    |-> "ENGINE_TRACK_ADD",
      psi_mode                       |-> "PSI_MODE_MSTEP",
      koppa_mode                     |-> "KOPPA_MODE_ACCUMULATE",
      koppa_trigger                  |-> "KOPPA_ON_ALL_MU",
      prime_target                   |-> "PRIME_ON_MEMORY",
      mt10_behavior                  |-> "MT10_FORCED_PSI",
      sign_flip_mode                 |-> "SIGN_FLIP_NONE",
      ratio_trigger_mode             |-> "RATIO_TRIGGER_NONE",
      dual_track_mode                |-> FALSE,
      triple_psi_mode                |-> FALSE,
      multi_level_koppa              |-> FALSE,
      enable_asymmetric_cascade      |-> FALSE,
      enable_conditional_triple_psi  |-> FALSE,
      enable_koppa_gated_engine      |-> FALSE,
      enable_delta_cross_propagation |-> FALSE,
      enable_delta_koppa_offset      |-> FALSE,
      enable_ratio_threshold_psi     |-> FALSE,
      enable_stack_depth_modes       |-> FALSE,
      enable_epsilon_phi_triangle    |-> FALSE,
      enable_modular_wrap            |-> FALSE,
      enable_sign_flip               |-> FALSE,
      enable_psi_strength_parameter  |-> FALSE,
      enable_ratio_custom_range      |-> FALSE,
      enable_twin_prime_trigger      |-> FALSE,
      enable_fibonacci_trigger       |-> FALSE,
      enable_perfect_power_trigger   |-> FALSE,
      ticks                          |-> 10,
      initial_upsilon                |-> rational_set_si(1, 1),
      initial_beta                   |-> rational_set_si(1, 1),
      initial_koppa                  |-> rational_set_si(0, 0),
      ratio_custom_lower             |-> rational_set_si(0, 1),
      ratio_custom_upper             |-> rational_set_si(0, 1),
      koppa_wrap_threshold           |-> 0,
      modulus_bound                  |-> 0 ]

(***************************************************************************)
(* state.c                                                                 *)
(***************************************************************************)
state_init ==
    [ upsilon                    |-> rational_init,
      beta                       |-> rational_init,
      koppa                      |-> rational_init,
      epsilon                    |-> rational_init,
      phi                        |-> rational_init,
      previous_upsilon           |-> rational_init,
      previous_beta              |-> rational_init,
      delta_upsilon              |-> rational_init,
      delta_beta                 |-> rational_init,
      triangle_phi_over_epsilon  |-> rational_init,
      triangle_prev_over_phi     |-> rational_init,
      triangle_epsilon_over_prev |-> rational_init,
      koppa_stack                |-> [i \in 0..3 |-> rational_init],
      koppa_stack_size           |-> 0,
      koppa_sample               |-> rational_init,
      koppa_sample_index         |-> -1,
      rho_pending                |-> FALSE,
      rho_latched                |-> FALSE,
      psi_recent                 |-> FALSE,
      psi_triple_recent          |-> FALSE,
      psi_strength_applied       |-> FALSE,
      ratio_triggered_recent     |-> FALSE,
      ratio_threshold_recent     |-> FALSE,
      dual_engine_last_step      |-> FALSE,
      sign_flip_polarity         |-> FALSE,
      tick                       |-> 0 ]

\* state_reset that sets the shadows previous_upsilon and previous_beta to 1/1.
state_reset_unit_shadows(s, config) ==
    [ s EXCEPT
      !.upsilon                    = rational_set(config.initial_upsilon),
      !.beta                       = rational_set(config.initial_beta),
      !.koppa                      = rational_set(config.initial_koppa),
      !.epsilon                    = rational_set_si(0, 1),
      !.phi                        = rational_set_si(0, 1),
      !.previous_upsilon           = rational_set_si(1, 1),
      !.previous_beta              = rational_set_si(1, 1),
      !.delta_upsilon              = rational_set_si(0, 1),
      !.delta_beta                 = rational_set_si(0, 1),
      !.triangle_phi_over_epsilon  = rational_set_si(0, 1),
      !.triangle_prev_over_phi     = rational_set_si(0, 1),
      !.triangle_epsilon_over_prev = rational_set_si(0, 1),
      !.koppa_stack_size           = 0,
      !.koppa_sample_index         = -1,
      !.koppa_sample               = rational_set_si(0, 1),
      !.rho_pending                = FALSE,
      !.rho_latched                = FALSE,
      !.psi_recent                 = FALSE,
      !.psi_triple_recent          = FALSE,
      !.psi_strength_applied       = FALSE,
      !.ratio_triggered_recent     = FALSE,
      !.ratio_threshold_recent     = FALSE,
      !.dual_engine_last_step      = FALSE,
      !.sign_flip_polarity         = FALSE,
      !.tick                       = 0 ]

state_reset(s, config) ==
    [ s EXCEPT
      !.upsilon                    = rational_set(config.initial_upsilon),
      !.beta                       = rational_set(config.initial_beta),
      !.koppa                      = rational_set(config.initial_koppa),
      !.epsilon                    = rational_set_si(0, 1),
      !.phi                        = rational_set_si(0, 1),
      !.previous_upsilon           = rational_set(config.initial_upsilon),
      !.previous_beta              = rational_set(config.initial_beta),
      !.delta_upsilon              = rational_set_si(0, 1),
      !.delta_beta                 = rational_set_si(0, 1),
      !.triangle_phi_over_epsilon  = rational_set_si(0, 1),
      !.triangle_prev_over_phi     = rational_set_si(0, 1),
      !.triangle_epsilon_over_prev = rational_set_si(0, 1),
      !.koppa_stack_size           = 0,
      !.koppa_sample_index         = -1,
      !.koppa_sample               = rational_set_si(0, 1),
      !.rho_pending                = FALSE,
      !.rho_latched                = FALSE,
      !.psi_recent                 = FALSE,
      !.psi_triple_recent          = FALSE,
      !.psi_strength_applied       = FALSE,
      !.ratio_triggered_recent     = FALSE,
      !.ratio_threshold_recent     = FALSE,
      !.dual_engine_last_step      = FALSE,
      !.sign_flip_polarity         = FALSE,
      !.tick                       = 0 ]

\* The three primary registers of a state, as one record.
Regs(s) == [upsilon |-> s.upsilon, beta |-> s.beta, koppa |-> s.koppa]

(***************************************************************************)
(* psi.c                                                                   *)
(***************************************************************************)
FIB_TICKS == {5, 13, 89, 233, 1597, 4181, 10946, 28657, 75025, 196418,
              514229, 1346269, 3524578, 9227465}

\* is_fibonacci_tick that accepts every Fibonacci number.
is_fibonacci_tick_every_fibonacci(tick) ==
    tick \in FIB_TICKS \cup {1, 2, 3, 8, 21, 34, 55, 144}

is_fibonacci_tick(tick) == tick \in FIB_TICKS

numerator_is_prime(value) == IsPrime(Abs(value.num))

\* standard_psi with the new beta taken from the already replaced upsilon
\* instead of from the snapshot.
standard_psi_no_snapshot(state) ==
    IF rational_is_zero(state.upsilon) \/ rational_is_zero(state.beta)
    THEN [ok |-> FALSE, state |-> state]
    ELSE LET new_u_num == state.beta.num * state.upsilon.den
             new_u_den == state.beta.den * state.upsilon.num
             new_b_num == new_u_num * state.beta.den
             new_b_den == new_u_den * state.beta.num
         IN  IF new_u_den = 0 \/ new_b_den = 0
             THEN [ok |-> FALSE, state |-> state]
             ELSE [ok |-> TRUE,
                   state |-> [state EXCEPT
                      !.upsilon = rational_set_components(new_u_num, new_u_den),
                      !.beta    = rational_set_components(new_b_num, new_b_den)]]

\* Standard psi: (u, b) -> (b/u, u/b), from the snapshot of the components.
standard_psi(state) ==
    IF rational_is_zero(state.upsilon) \/ rational_is_zero(state.beta)
    THEN [ok |-> FALSE, state |-> state]
    ELSE LET ups_num   == state.upsilon.num
             ups_den   == state.upsilon.den
             beta_num  == state.beta.num
             beta_den  == state.beta.den
             new_u_num == beta_num * ups_den
             new_u_den == beta_den * ups_num
             new_b_num == ups_num * beta_den
             new_b_den == ups_den * beta_num
         IN  IF new_u_den = 0 \/ new_b_den = 0
             THEN [ok |-> FALSE, state |-> state]
             ELSE [ok |-> TRUE,
                   state |-> [state EXCEPT
                      !.upsilon = rational_set_components(new_u_num, new_u_den),
                      !.beta    = rational_set_components(new_b_num, new_b_den)]]

\* triple_psi with the new beta computed as upsilon / koppa.
triple_psi_beta_inverted(state) ==
    IF rational_is_zero(state.koppa) \/ rational_is_zero(state.upsilon)
       \/ rational_is_zero(state.beta)
    THEN [ok |-> FALSE, state |-> state]
    ELSE LET new_u_num == state.beta.num * state.koppa.den
             new_u_den == state.beta.den * state.koppa.num
             new_b_num == state.upsilon.num * state.koppa.den
             new_b_den == state.upsilon.den * state.koppa.num
             new_k_num == state.koppa.num * state.beta.den
             new_k_den == state.koppa.den * state.beta.num
         IN  IF new_u_den = 0 \/ new_b_den = 0 \/ new_k_den = 0
             THEN [ok |-> FALSE, state |-> state]
             ELSE [ok |-> TRUE,
                   state |-> [state EXCEPT
                      !.upsilon = rational_set_components(new_u_num, new_u_den),
                      !.beta    = rational_set_components(new_b_num, new_b_den),
                      !.koppa   = rational_set_components(new_k_num, new_k_den)]]

\* triple_psi that writes the registers before the denominator check, so a
\* failed transform leaves them replaced.
triple_psi_early_write(state) ==
    LET new_u == rational_set_components(state.beta.num * state.koppa.den,
                                         state.beta.den * state.koppa.num)
        new_b == rational_set_components(state.koppa.num * state.upsilon.den,
                                         state.koppa.den * state.upsilon.num)
        new_k == rational_set_components(state.koppa.num * state.beta.den,
                                         state.koppa.den * state.beta.num)
        written == [state EXCEPT !.upsilon = new_u, !.beta = new_b, !.koppa = new_k]
    IN  IF \/ rational_is_zero(state.koppa) \/ rational_is_zero(state.upsilon)
           \/ rational_is_zero(state.beta)
           \/ state.beta.den * state.koppa.num = 0
           \/ state.koppa.den * state.upsilon.num = 0
           \/ state.koppa.den * state.beta.num = 0
        THEN [ok |-> FALSE, state |-> written]
        ELSE [ok |-> TRUE, state |-> written]

\* Triple psi: (u, b, k) -> (b/k, k/u, k/b), from the snapshot.
triple_psi(state) ==
    IF rational_is_zero(state.koppa) \/ rational_is_zero(state.upsilon)
       \/ rational_is_zero(state.beta)
    THEN [ok |-> FALSE, state |-> state]
    ELSE LET ups_num   == state.upsilon.num
             ups_den   == state.upsilon.den
             beta_num  == state.beta.num
             beta_den  == state.beta.den
             koppa_num == state.koppa.num
             koppa_den == state.koppa.den
             new_u_num == beta_num * koppa_den
             new_u_den == beta_den * koppa_num
             new_b_num == koppa_num * ups_den
             new_b_den == koppa_den * ups_num
             new_k_num == koppa_num * beta_den
             new_k_den == koppa_den * beta_num
         IN  IF new_u_den = 0 \/ new_b_den = 0 \/ new_k_den = 0
             THEN [ok |-> FALSE, state |-> state]
             ELSE [ok |-> TRUE,
                   state |-> [state EXCEPT
                      !.upsilon = rational_set_components(new_u_num, new_u_den),
                      !.beta    = rational_set_components(new_b_num, new_b_den),
                      !.koppa   = rational_set_components(new_k_num, new_k_den)]]

\* psi_strength that counts the prime numerators whether or not the latch
\* is set.
psi_strength_ignores_latch(config, state) ==
    IF ~config.enable_psi_strength_parameter
    THEN 1
    ELSE LET prime_count ==
                 (IF numerator_is_prime(state.upsilon) THEN 1 ELSE 0)
               + (IF numerator_is_prime(state.beta) THEN 1 ELSE 0)
               + (IF numerator_is_prime(state.koppa) THEN 1 ELSE 0)
         IN  IF prime_count <= 0 THEN 1 ELSE prime_count

psi_strength(config, state) ==
    IF ~config.enable_psi_strength_parameter \/ ~state.rho_pending
    THEN 1
    ELSE LET prime_count ==
                 (IF numerator_is_prime(state.upsilon) THEN 1 ELSE 0)
               + (IF numerator_is_prime(state.beta) THEN 1 ELSE 0)
               + (IF numerator_is_prime(state.koppa) THEN 1 ELSE 0)
         IN  IF prime_count <= 0 THEN 1 ELSE prime_count

\* psi_request_triple with all of the final three iterations of a burst of
\* strength 3 or more requesting the triple transform.
psi_request_triple_final_three(config, state, strength, i) ==
    \/ config.triple_psi_mode
    \/ /\ config.enable_conditional_triple_psi
       /\ numerator_is_prime(state.upsilon)
       /\ numerator_is_prime(state.beta)
       /\ numerator_is_prime(state.koppa)
    \/ (strength >= 3 /\ i >= strength - 3)

\* psi_request_triple with the last iteration of a burst of two or more
\* requesting the triple transform.
psi_request_triple_last_iteration(config, state, strength, i) ==
    \/ config.triple_psi_mode
    \/ /\ config.enable_conditional_triple_psi
       /\ numerator_is_prime(state.upsilon)
       /\ numerator_is_prime(state.beta)
       /\ numerator_is_prime(state.koppa)
    \/ (strength >= 2 /\ i = strength - 1)

\* Which transform iteration i of a burst of the given strength requests.
psi_request_triple(config, state, strength, i) ==
    \/ config.triple_psi_mode
    \/ /\ config.enable_conditional_triple_psi
       /\ numerator_is_prime(state.upsilon)
       /\ numerator_is_prime(state.beta)
       /\ numerator_is_prime(state.koppa)
    \/ (strength >= 3 /\ i = strength - 3)

\* psi_after_fire that clears the latch on every successful iteration but
\* the first.
psi_after_fire_late_clear(state, i) ==
    [state EXCEPT !.psi_recent = TRUE,
                  !.rho_pending = IF i # 0 THEN FALSE ELSE @]

\* The flag updates that follow a successful iteration i.
psi_after_fire(state, i) ==
    [state EXCEPT !.psi_recent = TRUE,
                  !.rho_pending = IF i = 0 THEN FALSE ELSE @]

\* The value psi_transform returns once the loop is over: the C variable
\* `fired`, which holds the outcome of the last iteration that ran.
psi_return(fired, iters) == fired

\* The for loop of psi_transform from iteration i on.  iters records, for
\* every iteration that ran, the transform it requested, its outcome and the
\* registers before and after it; fired is the C variable of that name.
RECURSIVE psi_loop(_, _, _, _, _, _)
psi_loop(config, state, strength, i, fired, iters) ==
    IF i >= strength
    THEN [ret |-> psi_return(fired, iters), state |-> state, iters |-> iters]
    ELSE LET request_triple == psi_request_triple(config, state, strength, i)
             r  == IF request_triple THEN triple_psi(state) ELSE standard_psi(state)
             s1 == IF request_triple /\ r.ok
                   THEN [r.state EXCEPT !.psi_triple_recent = TRUE]
                   ELSE r.state
             it == [i |-> i, triple |-> request_triple, ok |-> r.ok,
                    before |-> Regs(state), after |-> Regs(r.state),
                    latch_before |-> state.rho_pending,
                    latch_after |-> IF r.ok THEN psi_after_fire(s1, i).rho_pending
                                    ELSE s1.rho_pending]
         IN  IF r.ok
             THEN psi_loop(config, psi_after_fire(s1, i), strength, i + 1, TRUE,
                           Append(iters, it))
             ELSE [ret |-> psi_return(FALSE, Append(iters, it)), state |-> s1,
                   iters |-> Append(iters, it)]

\* psi_can_fire without the tick gate of the latch-gated modes.
psi_can_fire_no_tick_gate(config, state) ==
    /\ (config.psi_mode \in {"PSI_MODE_RHO_ONLY", "PSI_MODE_MSTEP_RHO"}
          => state.rho_pending)
    /\ (state.rho_pending \/ config.psi_mode = "PSI_MODE_MSTEP")

\* The firing conditions psi_transform checks before the loop.
psi_can_fire(config, state) ==
    /\ (config.psi_mode \in {"PSI_MODE_RHO_ONLY", "PSI_MODE_MSTEP_RHO"}
          => state.rho_pending /\ is_fibonacci_tick(state.tick))
    /\ (state.rho_pending \/ config.psi_mode = "PSI_MODE_MSTEP")

psi_transform(config, state) ==
    LET s0 == [state EXCEPT !.psi_triple_recent = FALSE,
                            !.psi_recent = FALSE,
                            !.psi_strength_applied = FALSE]
    IN  IF ~psi_can_fire(config, s0)
        THEN [ret |-> FALSE, state |-> s0, iters |-> <<>>]
        ELSE LET strength == psi_strength(config, s0)
                 s1 == IF strength > 1
                       THEN [s0 EXCEPT !.psi_strength_applied = TRUE]
                       ELSE s0
             IN  psi_loop(config, s1, strength, 0, FALSE, <<>>)

(***************************************************************************)
(* Magnitude guard shared by the specifications.                           *)
(***************************************************************************)
RatFits(q, m) == Abs(q.num) <= m /\ Abs(q.den) <= m

RegsFit(s, m) ==
    /\ RatFits(s.upsilon, m) /\ RatFits(s.beta, m) /\ RatFits(s.koppa, m)
    /\ RatFits(s.epsilon, m)
    /\ RatFits(s.previous_upsilon, m) /\ RatFits(s.previous_beta, m)
    /\ RatFits(s.delta_upsilon, m) /\ RatFits(s.delta_beta, m)

NoCall == [op |-> "none"]

(***************************************************************************)
(* SpecPsi: psi_transform called on any registers and any psi              *)
(* configuration.  The registers range over the values a run can hold,     *)
(* including the seeds the loader accepts with a zero denominator.         *)
(***************************************************************************)
PsiNums == {0, 1, 2, 3, 5}

PsiRats == [num : PsiNums, den : {0, 1}] \cup {Rat(1, 2), Rat(3, 2)}

PsiTicks == {1, 5}

PsiConfigs ==
    { [config_init EXCEPT !.psi_mode = m, !.triple_psi_mode = t,
                          !.enable_conditional_triple_psi = c,
                          !.enable_psi_strength_parameter = g]
      : m \in PsiModes, t \in BOOLEAN, c \in BOOLEAN, g \in BOOLEAN }

InitPsi ==
    /\ cfg \in PsiConfigs
    /\ \E u \in PsiRats, b \in PsiRats, k \in PsiRats, rho \in BOOLEAN,
          t \in PsiTicks :
          st = [state_reset(state_init, cfg) EXCEPT
                  !.upsilon = u, !.beta = b, !.koppa = k,
                  !.rho_pending = rho, !.tick = t]
    /\ mt = 2
    /\ pc = "psi"
    /\ obs = NoCall
    /\ pushed = <<>>

PsiCall ==
    /\ pc = "psi"
    /\ RegsFit(st, MaxMag)
    /\ LET r == psi_transform(cfg, st)
       IN  /\ st' = r.state
           /\ obs' = [op |-> "psi_transform", pre |-> st, ret |-> r.ret,
                      iters |-> r.iters]
    /\ UNCHANGED <<cfg, mt, pc, pushed>>

NextPsi == PsiCall

SpecPsi == InitPsi /\ [][NextPsi]_vars

(***************************************************************************)
(* Claims about psi_transform, checked under SpecPsi.                      *)
(***************************************************************************)
PsiObserved == obs.op = "psi_transform"

PsiIters == IF PsiObserved THEN obs.iters ELSE <<>>

\* C4: a successful standard psi sets upsilon to (bn*ud)/(bd*un) and beta to
\* (un*bd)/(ud*bn), both from the values before the transform and without
\* reduction; upsilon = beta = 1/1 is a fixed point.
StandardPsiResult ==
    \A j \in DOMAIN PsiIters :
        LET it == PsiIters[j]
            u  == it.before.upsilon
            b  == it.before.beta
        IN  (~it.triple /\ it.ok) =>
               /\ it.after.upsilon = Rat(b.num * u.den, b.den * u.num)
               /\ it.after.beta = Rat(u.num * b.den, u.den * b.num)
               /\ (u = Rat(1, 1) /\ b = Rat(1, 1)
                     => it.after.upsilon = Rat(1, 1) /\ it.after.beta = Rat(1, 1))

StandardPsiResultWitness ==
    \E j \in DOMAIN PsiIters :
        /\ ~PsiIters[j].triple /\ PsiIters[j].ok
        /\ PsiIters[j].before.upsilon = Rat(3, 2)
        /\ PsiIters[j].before.beta = Rat(5, 1)
        /\ st.upsilon = Rat(10, 3) /\ st.beta = Rat(3, 10)

\* C5: a successful triple psi sets (upsilon, beta, koppa) to
\* (beta/koppa, koppa/upsilon, koppa/beta), every quotient taken from the
\* values before the transform; 2/1, 3/1, 5/1 yields 3/5, 5/2, 5/3.
TriplePsiResult ==
    \A j \in DOMAIN PsiIters :
        LET it == PsiIters[j]
            u  == it.before.upsilon
            b  == it.before.beta
            k  == it.before.koppa
        IN  (it.triple /\ it.ok) =>
               /\ it.after.upsilon = rational_div(u, b, k).r
               /\ it.after.beta = rational_div(b, k, u).r
               /\ it.after.koppa = rational_div(k, k, b).r
               /\ (u = Rat(2, 1) /\ b = Rat(3, 1) /\ k = Rat(5, 1)
                     => /\ it.after.upsilon = Rat(3, 5)
                        /\ it.after.beta = Rat(5, 2)
                        /\ it.after.koppa = Rat(5, 3))

TriplePsiResultWitness ==
    \E j \in DOMAIN PsiIters :
        /\ PsiIters[j].triple /\ PsiIters[j].ok
        /\ PsiIters[j].before = [upsilon |-> Rat(2, 1), beta |-> Rat(3, 1),
                                 koppa |-> Rat(5, 1)]

\* C6: a standard psi attempted while upsilon or beta is the zero-rational,
\* and a triple psi attempted while upsilon, beta or koppa is the
\* zero-rational, fails and leaves upsilon, beta and koppa as they were.
PsiFailureUnchanged ==
    /\ \A j \in DOMAIN PsiIters :
          LET it == PsiIters[j]
              zero == \/ rational_is_zero(it.before.upsilon)
                      \/ rational_is_zero(it.before.beta)
                      \/ (it.triple /\ rational_is_zero(it.before.koppa))
          IN  zero => ~it.ok /\ it.after = it.before
    /\ (PsiObserved /\ Len(PsiIters) = 1 /\ ~PsiIters[1].ok
          => Regs(st) = Regs(obs.pre))

PsiFailureUnchangedWitness ==
    /\ PsiObserved
    /\ Len(PsiIters) = 1
    /\ PsiIters[1].triple /\ ~PsiIters[1].ok
    /\ rational_is_zero(obs.pre.koppa)
    /\ ~rational_is_zero(obs.pre.upsilon) /\ ~rational_is_zero(obs.pre.beta)

\* C7: psi_transform returns true if and only if at least one exchange
\* (standard or triple) was applied to the registers during the call.
PsiReturnsWhetherExchanged ==
    PsiObserved => (obs.ret <=> \E j \in DOMAIN PsiIters : PsiIters[j].ok)

PsiBurstNotAtomic ==
    PsiObserved =>
        /\ \A j \in DOMAIN PsiIters : j < Len(PsiIters) => PsiIters[j].ok
        /\ \A j \in DOMAIN PsiIters :
              /\ PsiIters[j].before =
                    (IF j = 1 THEN Regs(obs.pre) ELSE PsiIters[j - 1].after)
              /\ (~PsiIters[j].ok => PsiIters[j].after = PsiIters[j].before)
        /\ Regs(st) = (IF Len(PsiIters) = 0 THEN Regs(obs.pre)
                       ELSE PsiIters[Len(PsiIters)].after)
        /\ st.rho_pending = (IF Len(PsiIters) > 0 /\ PsiIters[1].ok THEN FALSE
                             ELSE obs.pre.rho_pending)
        /\ \A j \in DOMAIN PsiIters :
              PsiIters[j].latch_after =
                 (IF j = 1 /\ PsiIters[j].ok THEN FALSE
                  ELSE PsiIters[j].latch_before)

PsiBurstNotAtomicWitness ==
    /\ PsiObserved
    /\ Len(PsiIters) >= 2
    /\ PsiIters[1].ok
    /\ ~PsiIters[Len(PsiIters)].ok
    /\ Regs(st) # Regs(obs.pre)
    /\ obs.pre.rho_pending /\ ~st.rho_pending

(***************************************************************************)
(* koppa.c                                                                 *)
(***************************************************************************)
koppa_dump(s) == [s EXCEPT !.koppa = rational_set_si(0, 1)]

koppa_pop(s) == [s EXCEPT !.koppa = rational_set(s.epsilon)]

koppa_accumulate(s) == [s EXCEPT !.koppa = rational_add(s.koppa, s.epsilon)]

\* koppa_stack_push that drops the newest entry when the history is full.
koppa_stack_push_drop_newest(s, val) ==
    IF s.koppa_stack_size = 4
    THEN [s EXCEPT !.koppa_stack[3] = val]
    ELSE [s EXCEPT !.koppa_stack[s.koppa_stack_size] = val,
                   !.koppa_stack_size = @ + 1]

\* koppa_stack_push that starts the history over when it is full.
koppa_stack_push_restarts(s, val) ==
    IF s.koppa_stack_size = 4
    THEN [s EXCEPT !.koppa_stack[0] = val, !.koppa_stack_size = 1]
    ELSE [s EXCEPT !.koppa_stack[s.koppa_stack_size] = val,
                   !.koppa_stack_size = @ + 1]

koppa_stack_push(s, val) ==
    IF s.koppa_stack_size = 4
    THEN [s EXCEPT !.koppa_stack =
             [i \in 0..3 |-> IF i < 3 THEN s.koppa_stack[i + 1] ELSE val]]
    ELSE [s EXCEPT !.koppa_stack[s.koppa_stack_size] = val,
                   !.koppa_stack_size = @ + 1]

\* koppa_update_sample with the two sampled slots exchanged.
koppa_update_sample_swapped(s, microtick, multi_level) ==
    IF ~multi_level \/ s.koppa_stack_size = 0
    THEN [s EXCEPT !.koppa_sample = s.koppa]
    ELSE LET index == IF microtick = 5 /\ s.koppa_stack_size >= 3 THEN 2
                      ELSE IF microtick = 11 /\ s.koppa_stack_size >= 1 THEN 0
                      ELSE -1
         IN  IF index # -1
             THEN [s EXCEPT !.koppa_sample = s.koppa_stack[index],
                            !.koppa_sample_index = index]
             ELSE [s EXCEPT !.koppa_sample = s.koppa,
                            !.koppa_sample_index = -1]

\* koppa_update_sample that samples the newest history entry.
koppa_update_sample_newest(s, microtick, multi_level) ==
    IF ~multi_level \/ s.koppa_stack_size = 0
    THEN [s EXCEPT !.koppa_sample = s.koppa]
    ELSE LET index == IF microtick \in {5, 11} THEN s.koppa_stack_size - 1
                      ELSE -1
         IN  IF index # -1
             THEN [s EXCEPT !.koppa_sample = s.koppa_stack[index],
                            !.koppa_sample_index = index]
             ELSE [s EXCEPT !.koppa_sample = s.koppa,
                            !.koppa_sample_index = -1]

koppa_update_sample(s, microtick, multi_level) ==
    IF ~multi_level \/ s.koppa_stack_size = 0
    THEN [s EXCEPT !.koppa_sample = s.koppa]
    ELSE LET index == IF microtick = 5 /\ s.koppa_stack_size >= 1 THEN 0
                      ELSE IF microtick = 11 /\ s.koppa_stack_size >= 3 THEN 2
                      ELSE -1
         IN  IF index # -1
             THEN [s EXCEPT !.koppa_sample = s.koppa_stack[index],
                            !.koppa_sample_index = index]
             ELSE [s EXCEPT !.koppa_sample = s.koppa,
                            !.koppa_sample_index = -1]

koppa_trigger_fires(config, s, psi_fired, is_memory_step) ==
    CASE config.koppa_trigger = "KOPPA_ON_PSI"          -> psi_fired
      [] config.koppa_trigger = "KOPPA_ON_MSTEP"        -> is_memory_step
      [] config.koppa_trigger = "KOPPA_ON_ALL_MU"       -> TRUE
      [] config.koppa_trigger = "KOPPA_ON_MU_AFTER_PSI" -> s.psi_recent

\* koppa_operation with POP adding epsilon to koppa as ACCUMULATE does.
koppa_operation_pop_accumulates(config, s) ==
    CASE config.koppa_mode = "KOPPA_MODE_DUMP"       -> koppa_dump(s)
      [] config.koppa_mode = "KOPPA_MODE_POP"        -> koppa_accumulate(s)
      [] config.koppa_mode = "KOPPA_MODE_ACCUMULATE" -> koppa_accumulate(s)

koppa_operation(config, s) ==
    CASE config.koppa_mode = "KOPPA_MODE_DUMP"       -> koppa_dump(s)
      [] config.koppa_mode = "KOPPA_MODE_POP"        -> koppa_pop(s)
      [] config.koppa_mode = "KOPPA_MODE_ACCUMULATE" -> koppa_accumulate(s)

\* koppa_accrue that records koppa in the history on untriggered calls too.
koppa_accrue_always_pushes(config, s, psi_fired, is_memory_step, microtick) ==
    LET trigger == koppa_trigger_fires(config, s, psi_fired, is_memory_step)
        s1 == [s EXCEPT !.psi_recent =
                  IF psi_fired THEN TRUE
                  ELSE IF config.koppa_trigger = "KOPPA_ON_MU_AFTER_PSI"
                          /\ ~is_memory_step THEN TRUE
                  ELSE FALSE]
    IN  IF ~trigger
        THEN [state |-> koppa_update_sample(
                            IF config.multi_level_koppa
                            THEN koppa_stack_push(s1, s1.koppa) ELSE s1,
                            microtick, config.multi_level_koppa),
              trigger |-> FALSE, pushed |-> <<>>]
        ELSE LET s2 == IF config.multi_level_koppa
                       THEN koppa_stack_push(s1, s1.koppa) ELSE s1
                 s3 == koppa_operation(config, s2)
                 tmp == rational_add(s3.upsilon, s3.beta)
                 sum == rational_add(s3.koppa, tmp)
                 s4 == [s3 EXCEPT !.koppa = rational_set(sum)]
             IN  [state |-> koppa_update_sample(s4, microtick,
                                                config.multi_level_koppa),
                  trigger |-> TRUE,
                  pushed |-> IF config.multi_level_koppa THEN <<s1.koppa>>
                             ELSE <<>>]

\* koppa_accrue that leaves out the sum of upsilon and beta when it is zero.
koppa_accrue_skips_zero_sum(config, s, psi_fired, is_memory_step, microtick) ==
    LET trigger == koppa_trigger_fires(config, s, psi_fired, is_memory_step)
        s1 == [s EXCEPT !.psi_recent =
                  IF psi_fired THEN TRUE
                  ELSE IF config.koppa_trigger = "KOPPA_ON_MU_AFTER_PSI"
                          /\ ~is_memory_step THEN TRUE
                  ELSE FALSE]
    IN  IF ~trigger
        THEN [state |-> koppa_update_sample(s1, microtick, config.multi_level_koppa),
              trigger |-> FALSE, pushed |-> <<>>]
        ELSE LET s2 == IF config.multi_level_koppa
                       THEN koppa_stack_push(s1, s1.koppa) ELSE s1
                 s3 == koppa_operation(config, s2)
                 tmp == rational_add(s3.upsilon, s3.beta)
                 sum == IF rational_is_zero(tmp) THEN s3.koppa
                        ELSE rational_add(s3.koppa, tmp)
                 s4 == [s3 EXCEPT !.koppa = rational_set(sum)]
             IN  [state |-> koppa_update_sample(s4, microtick,
                                                config.multi_level_koppa),
                  trigger |-> TRUE,
                  pushed |-> IF config.multi_level_koppa THEN <<s1.koppa>>
                             ELSE <<>>]

\* Returns the new state, whether the trigger fired, and the values the call
\* pushed on the history (none or one).
koppa_accrue(config, s, psi_fired, is_memory_step, microtick) ==
    LET trigger == koppa_trigger_fires(config, s, psi_fired, is_memory_step)
        s1 == [s EXCEPT !.psi_recent =
                  IF psi_fired THEN TRUE
                  ELSE IF config.koppa_trigger = "KOPPA_ON_MU_AFTER_PSI"
                          /\ ~is_memory_step THEN TRUE
                  ELSE FALSE]
    IN  IF ~trigger
        THEN [state |-> koppa_update_sample(s1, microtick, config.multi_level_koppa),
              trigger |-> FALSE, pushed |-> <<>>]
        ELSE LET s2 == IF config.multi_level_koppa
                       THEN koppa_stack_push(s1, s1.koppa) ELSE s1
                 s3 == koppa_operation(config, s2)
                 tmp == rational_add(s3.upsilon, s3.beta)
                 sum == rational_add(s3.koppa, tmp)
                 s4 == [s3 EXCEPT !.koppa = rational_set(sum)]
             IN  [state |-> koppa_update_sample(s4, microtick,
                                                config.multi_level_koppa),
                  trigger |-> TRUE,
                  pushed |-> IF config.multi_level_koppa THEN <<s1.koppa>>
                             ELSE <<>>]

(***************************************************************************)
(* SpecKoppa: koppa_accrue called, any number of times, the way the        *)
(* scheduler calls it (M microticks 2, 5, 11 with either psi outcome, R    *)
(* microtick 3; 8 behaves as 2 and 6, 9 as 3), on any koppa configuration. *)
(***************************************************************************)
KoppaUpsilons == {Rat(0, 0), Rat(1, 1)}

KoppaBetas == {Rat(0, 0), Rat(1, 1), Rat(1, 2)}

KoppaKoppas == {Rat(0, 0), Rat(1, 1), Rat(2, 1)}

KoppaEpsilons == {Rat(0, 0), Rat(0, 1), Rat(1, 1)}

KoppaConfigs ==
    { [config_init EXCEPT !.koppa_mode = m, !.koppa_trigger = t,
                          !.multi_level_koppa = l]
      : m \in KoppaModes, t \in KoppaTriggers, l \in BOOLEAN }

KoppaCalls ==
    [psi_fired : BOOLEAN, is_memory_step : {TRUE}, microtick : {2, 5, 11}]
    \cup [psi_fired : {FALSE}, is_memory_step : {FALSE}, microtick : {3}]

InitKoppa ==
    /\ cfg \in KoppaConfigs
    /\ \E u \in KoppaUpsilons, b \in KoppaBetas, k \in KoppaKoppas,
          e \in KoppaEpsilons :
          st = [state_reset(state_init, cfg) EXCEPT
                  !.upsilon = u, !.beta = b, !.koppa = k, !.epsilon = e,
                  !.tick = 1]
    /\ mt = 2
    /\ pc = "koppa"
    /\ obs = NoCall
    /\ pushed = <<>>

KoppaCall ==
    /\ pc = "koppa"
    /\ RegsFit(st, MaxMag)
    /\ Len(pushed) < MaxPushes
    /\ \E c \in KoppaCalls :
          LET r == koppa_accrue(cfg, st, c.psi_fired, c.is_memory_step, c.microtick)
          IN  /\ st' = r.state
              /\ obs' = [op |-> "koppa_accrue", pre |-> st, call |-> c,
                         trigger |-> r.trigger]
              /\ pushed' = pushed \o r.pushed
    /\ UNCHANGED <<cfg, mt, pc>>

NextKoppa == KoppaCall

SpecKoppa == InitKoppa /\ [][NextKoppa]_vars

(***************************************************************************)
(* Claims about koppa_accrue, checked under SpecKoppa.                     *)
(***************************************************************************)
KoppaObserved == obs.op = "koppa_accrue"

\* C3: after any koppa_accrue call whose trigger fires with koppa_mode DUMP,
\* koppa equals upsilon + beta exactly (the unreduced sum).
KoppaDumpIsSum ==
    (KoppaObserved /\ obs.trigger /\ cfg.koppa_mode = "KOPPA_MODE_DUMP")
        => st.koppa = Rat(st.upsilon.num * st.beta.den + st.beta.num * st.upsilon.den,
                          st.upsilon.den * st.beta.den)

Min(a, b) == IF a < b THEN a ELSE b

\* C10: the koppa history holds at most 4 entries; after n pushes its
\* occupied slots hold the last min(n, 4) pushed values in push order, slot
\* 0 the oldest; after a 5th push slot 0 holds the 2nd pushed value and slot
\* 3 the 5th.
HistoryEviction ==
    LET n == Len(pushed)
        m == Min(n, 4)
    IN  /\ st.koppa_stack_size = m
        /\ \A i \in 0..(m - 1) : st.koppa_stack[i] = pushed[n - m + i + 1]
        /\ (n = 5 => st.koppa_stack[0] = pushed[2] /\ st.koppa_stack[3] = pushed[5])

HistoryEvictionWitness ==
    /\ Len(pushed) = 5
    /\ \A i \in 1..5 : \A j \in 1..5 : i # j => pushed[i] # pushed[j]
    /\ st.koppa_stack_size = 4
    /\ st.koppa_stack[0] = pushed[2]

(***************************************************************************)
(* engine.c                                                                *)
(***************************************************************************)
SignFlipModes == {"SIGN_FLIP_NONE", "SIGN_FLIP_ALWAYS", "SIGN_FLIP_ALTERNATE"}

convert_engine_mode(mode) ==
    CASE mode = "ENGINE_MODE_ADD"   -> "ENGINE_TRACK_ADD"
      [] mode = "ENGINE_MODE_MULTI" -> "ENGINE_TRACK_MULTI"
      [] mode = "ENGINE_MODE_SLIDE" -> "ENGINE_TRACK_SLIDE"
      [] OTHER                      -> "ENGINE_TRACK_ADD"

\* modes is the pair [ups, beta] the caller passes by reference.
apply_asymmetric_modes(config, microtick, modes) ==
    IF ~config.enable_asymmetric_cascade THEN modes
    ELSE CASE microtick = 1  -> [ups |-> "ENGINE_TRACK_MULTI", beta |-> "ENGINE_TRACK_ADD"]
           [] microtick = 4  -> [ups |-> "ENGINE_TRACK_ADD", beta |-> "ENGINE_TRACK_SLIDE"]
           [] microtick = 7  -> [ups |-> "ENGINE_TRACK_SLIDE", beta |-> "ENGINE_TRACK_MULTI"]
           [] microtick = 10 -> [ups |-> "ENGINE_TRACK_ADD", beta |-> "ENGINE_TRACK_ADD"]
           [] OTHER          -> modes

apply_stack_depth_mode(config, state, base_mode) ==
    IF ~config.enable_stack_depth_modes THEN base_mode
    ELSE LET depth == state.koppa_stack_size
         IN  IF depth <= 1 THEN "ENGINE_TRACK_ADD"
             ELSE IF depth <= 3 THEN "ENGINE_TRACK_MULTI"
             ELSE IF depth = 4 THEN "ENGINE_TRACK_SLIDE"
             ELSE "ENGINE_TRACK_ADD"

apply_koppa_gate(config, state, base_mode) ==
    IF ~config.enable_koppa_gated_engine THEN base_mode
    ELSE LET magnitude == rational_abs_num(state.koppa)
         IN  IF magnitude < 10 THEN "ENGINE_TRACK_SLIDE"
             ELSE IF magnitude < 100 THEN "ENGINE_TRACK_MULTI"
             ELSE "ENGINE_TRACK_ADD"

\* apply_track_mode with the sum of SLIDE not tested before the division.
apply_track_mode_sum_unchecked(mode, result, current, counterpart, koppa) ==
    CASE mode = "ENGINE_TRACK_ADD" ->
           [ok |-> TRUE,
            r  |-> rational_add(rational_add(current, counterpart), koppa)]
      [] mode = "ENGINE_TRACK_MULTI" ->
           [ok |-> TRUE,
            r  |-> rational_mul(current, rational_add(counterpart, koppa))]
      [] mode = "ENGINE_TRACK_SLIDE" ->
           IF rational_is_zero(koppa) \/ rational_denominator_zero(koppa)
           THEN [ok |-> FALSE, r |-> result]
           ELSE rational_div(result, rational_add(current, counterpart), koppa)

\* result is the value the destination held before the call; the returned
\* record holds the flag and the destination afterwards.
apply_track_mode(mode, result, current, counterpart, koppa) ==
    CASE mode = "ENGINE_TRACK_ADD" ->
           [ok |-> TRUE,
            r  |-> rational_add(rational_add(current, counterpart), koppa)]
      [] mode = "ENGINE_TRACK_MULTI" ->
           [ok |-> TRUE,
            r  |-> rational_mul(current, rational_add(counterpart, koppa))]
      [] mode = "ENGINE_TRACK_SLIDE" ->
           IF rational_is_zero(koppa) \/ rational_denominator_zero(koppa)
           THEN [ok |-> FALSE, r |-> result]
           ELSE LET workspace == rational_add(current, counterpart)
                IN  IF rational_denominator_zero(workspace)
                    THEN [ok |-> FALSE, r |-> result]
                    ELSE rational_div(result, workspace, koppa)

\* apply_sign_flip that leaves the polarity flag of ALTERNATE as it was.
apply_sign_flip_keeps_polarity(config, state, upsilon, beta) ==
    IF ~config.enable_sign_flip \/ config.sign_flip_mode = "SIGN_FLIP_NONE"
    THEN [state |-> [state EXCEPT !.sign_flip_polarity = FALSE],
          upsilon |-> upsilon, beta |-> beta]
    ELSE LET flip_now ==
                 CASE config.sign_flip_mode = "SIGN_FLIP_ALWAYS"    -> TRUE
                   [] config.sign_flip_mode = "SIGN_FLIP_ALTERNATE" ->
                        ~state.sign_flip_polarity
                   [] OTHER -> FALSE
             polarity ==
                 IF config.sign_flip_mode = "SIGN_FLIP_ALWAYS" THEN TRUE
                 ELSE IF config.sign_flip_mode = "SIGN_FLIP_ALTERNATE"
                 THEN state.sign_flip_polarity
                 ELSE state.sign_flip_polarity
         IN  [state   |-> [state EXCEPT !.sign_flip_polarity = polarity],
              upsilon |-> IF flip_now THEN rational_negate(upsilon) ELSE upsilon,
              beta    |-> IF flip_now THEN rational_negate(beta) ELSE beta]

\* Returns the state (its polarity flag updated) and the two locals.
apply_sign_flip(config, state, upsilon, beta) ==
    IF ~config.enable_sign_flip \/ config.sign_flip_mode = "SIGN_FLIP_NONE"
    THEN [state |-> [state EXCEPT !.sign_flip_polarity = FALSE],
          upsilon |-> upsilon, beta |-> beta]
    ELSE LET flip_now ==
                 CASE config.sign_flip_mode = "SIGN_FLIP_ALWAYS"    -> TRUE
                   [] config.sign_flip_mode = "SIGN_FLIP_ALTERNATE" ->
                        ~state.sign_flip_polarity
                   [] OTHER -> FALSE
             polarity ==
                 IF config.sign_flip_mode = "SIGN_FLIP_ALWAYS" THEN TRUE
                 ELSE IF config.sign_flip_mode = "SIGN_FLIP_ALTERNATE" THEN flip_now
                 ELSE state.sign_flip_polarity
         IN  [state   |-> [state EXCEPT !.sign_flip_polarity = polarity],
              upsilon |-> IF flip_now THEN rational_negate(upsilon) ELSE upsilon,
              beta    |-> IF flip_now THEN rational_negate(beta) ELSE beta]

update_triangle(config, state) ==
    IF ~config.enable_epsilon_phi_triangle THEN state
    ELSE [state EXCEPT
            !.triangle_phi_over_epsilon =
                IF ~rational_is_zero(state.epsilon)
                THEN rational_div(@, state.phi, state.epsilon).r
                ELSE rational_set_si(0, 1),
            !.triangle_prev_over_phi =
                IF ~rational_is_zero(state.phi)
                THEN rational_div(@, state.previous_upsilon, state.phi).r
                ELSE rational_set_si(0, 1),
            !.triangle_epsilon_over_prev =
                IF ~rational_is_zero(state.previous_upsilon)
                THEN rational_div(@, state.epsilon, state.previous_upsilon).r
                ELSE rational_set_si(0, 1)]

\* Returns the two locals after the cross terms were added.
apply_delta_cross(config, state, new_upsilon, new_beta) ==
    IF ~config.enable_delta_cross_propagation
    THEN [upsilon |-> new_upsilon, beta |-> new_beta]
    ELSE LET u1 == rational_add(new_upsilon, state.delta_beta)
             b1 == rational_add(new_beta, state.delta_upsilon)
         IN  IF config.enable_delta_koppa_offset
             THEN [upsilon |-> rational_add(u1, state.koppa),
                   beta    |-> rational_add(b1, state.koppa)]
             ELSE [upsilon |-> u1, beta |-> b1]

\* rational_mod_bound that does not restore the sign.
rational_mod_bound_unsigned(value, bound) ==
    IF bound = 0 THEN value
    ELSE [value EXCEPT !.num = Abs(value.num) % bound]

\* Only the numerator is written; the denominator keeps its value.
rational_mod_bound(value, bound) ==
    IF bound = 0 THEN value
    ELSE LET sign == Sgn(value.num)
             rem  == Abs(value.num) % bound
         IN  [value EXCEPT !.num = IF sign < 0 THEN -rem ELSE rem]

apply_modular_wrap(config, state) ==
    IF ~config.enable_modular_wrap THEN state
    ELSE LET s1 == IF config.koppa_wrap_threshold > 0
                      /\ rational_abs_num(state.koppa) > config.koppa_wrap_threshold
                   THEN [state EXCEPT !.koppa = rational_mod(state.koppa, state.beta)]
                   ELSE state
         IN  IF config.modulus_bound > 0
             THEN [s1 EXCEPT
                     !.upsilon = rational_mod_bound(s1.upsilon, config.modulus_bound),
                     !.beta    = rational_mod_bound(s1.beta, config.modulus_bound),
                     !.koppa   = rational_mod_bound(s1.koppa, config.modulus_bound)]
             ELSE s1

\* "Determine track modes" and "Apply modulations" of engine_step with the
\* koppa gate applied before the stack depth rule.
engine_track_modes_gate_first(config, state, microtick) ==
    LET base == IF config.dual_track_mode
                THEN [ups |-> config.engine_upsilon, beta |-> config.engine_beta]
                ELSE [ups  |-> convert_engine_mode(config.engine_mode),
                      beta |-> convert_engine_mode(config.engine_mode)]
        asym == apply_asymmetric_modes(config, microtick, base)
    IN  [ups  |-> apply_stack_depth_mode(config, state,
                      apply_koppa_gate(config, state, asym.ups)),
         beta |-> apply_stack_depth_mode(config, state,
                      apply_koppa_gate(config, state, asym.beta))]

\* "Determine track modes" and "Apply modulations" of engine_step: the
\* locals ups_mode and beta_mode as the formulas will use them.
engine_track_modes(config, state, microtick) ==
    LET base == IF config.dual_track_mode
                THEN [ups |-> config.engine_upsilon, beta |-> config.engine_beta]
                ELSE [ups  |-> convert_engine_mode(config.engine_mode),
                      beta |-> convert_engine_mode(config.engine_mode)]
        asym == apply_asymmetric_modes(config, microtick, base)
    IN  [ups  |-> apply_koppa_gate(config, state,
                      apply_stack_depth_mode(config, state, asym.ups)),
         beta |-> apply_koppa_gate(config, state,
                      apply_stack_depth_mode(config, state, asym.beta))]

\* engine_step that keeps the deltas computed before the formulas.
engine_step_stale_deltas(config, state, microtick) ==
    LET ups_before  == rational_set(state.upsilon)
        beta_before == rational_set(state.beta)
        modes     == engine_track_modes(config, state, microtick)
        ups_mode  == modes.ups
        beta_mode == modes.beta
        s1 == [state EXCEPT
                 !.delta_upsilon = rational_delta(state.upsilon, state.previous_upsilon),
                 !.delta_beta    = rational_delta(state.beta, state.previous_beta)]
        use_delta_add == ~config.dual_track_mode
                         /\ config.engine_mode = "ENGINE_MODE_DELTA_ADD"
        ups_result  == apply_track_mode(ups_mode, rational_set(state.upsilon),
                                        state.upsilon, state.beta, state.koppa)
        beta_result == apply_track_mode(beta_mode, rational_set(state.beta),
                                        state.beta, state.upsilon, state.koppa)
        success == IF use_delta_add THEN TRUE ELSE ups_result.ok /\ beta_result.ok
        new_upsilon == IF use_delta_add
                       THEN rational_add(state.upsilon, s1.delta_upsilon)
                       ELSE ups_result.r
        new_beta    == IF use_delta_add
                       THEN rational_add(state.beta, s1.delta_beta)
                       ELSE beta_result.r
        crossed == apply_delta_cross(config, s1, new_upsilon, new_beta)
        flipped == apply_sign_flip(config, s1, crossed.upsilon, crossed.beta)
        s2 == update_triangle(config, flipped.state)
    IN  IF success
        THEN LET s3 == [s2 EXCEPT
                          !.upsilon = rational_set(flipped.upsilon),
                          !.beta    = rational_set(flipped.beta),
                          !.dual_engine_last_step = config.dual_track_mode,
                          !.previous_upsilon = rational_set(ups_before),
                          !.previous_beta    = rational_set(beta_before)]
             IN  [ok |-> TRUE, state |-> apply_modular_wrap(config, s3)]
        ELSE [ok |-> FALSE,
              state |-> [s2 EXCEPT !.dual_engine_last_step = FALSE]]

\* Returns the flag and the state after the call.
engine_step(config, state, microtick) ==
    LET ups_before  == rational_set(state.upsilon)
        beta_before == rational_set(state.beta)
        modes     == engine_track_modes(config, state, microtick)
        ups_mode  == modes.ups
        beta_mode == modes.beta
        s1 == [state EXCEPT
                 !.delta_upsilon = rational_delta(state.upsilon, state.previous_upsilon),
                 !.delta_beta    = rational_delta(state.beta, state.previous_beta)]
        use_delta_add == ~config.dual_track_mode
                         /\ config.engine_mode = "ENGINE_MODE_DELTA_ADD"
        ups_result  == apply_track_mode(ups_mode, rational_set(state.upsilon),
                                        state.upsilon, state.beta, state.koppa)
        beta_result == apply_track_mode(beta_mode, rational_set(state.beta),
                                        state.beta, state.upsilon, state.koppa)
        success == IF use_delta_add THEN TRUE ELSE ups_result.ok /\ beta_result.ok
        new_upsilon == IF use_delta_add
                       THEN rational_add(state.upsilon, s1.delta_upsilon)
                       ELSE ups_result.r
        new_beta    == IF use_delta_add
                       THEN rational_add(state.beta, s1.delta_beta)
                       ELSE beta_result.r
        crossed == apply_delta_cross(config, s1, new_upsilon, new_beta)
        flipped == apply_sign_flip(config, s1, crossed.upsilon, crossed.beta)
        s2 == update_triangle(config, flipped.state)
    IN  IF success
        THEN LET s3 == [s2 EXCEPT
                          !.upsilon = rational_set(flipped.upsilon),
                          !.beta    = rational_set(flipped.beta),
                          !.dual_engine_last_step = config.dual_track_mode,
                          !.delta_upsilon = rational_delta(flipped.upsilon, ups_before),
                          !.delta_beta    = rational_delta(flipped.beta, beta_before),
                          !.previous_upsilon = rational_set(ups_before),
                          !.previous_beta    = rational_set(beta_before)]
             IN  [ok |-> TRUE, state |-> apply_modular_wrap(config, s3)]
        ELSE [ok |-> FALSE,
              state |-> [s2 EXCEPT !.dual_engine_last_step = FALSE]]

(***************************************************************************)
(* simulate.c: pattern detection and ratio triggers                        *)
(***************************************************************************)
mpz_is_prime_signed(value) == Abs(value) >= 2 /\ IsPrime(Abs(value))

\* mpz_sqrt: the truncated integer square root of v >= 0, found between lo
\* and hi (lo * lo <= v < (hi + 1) * (hi + 1)).
RECURSIVE SqrtBetween(_, _, _)
SqrtBetween(v, lo, hi) ==
    IF lo >= hi THEN lo
    ELSE LET mid == (lo + hi + 1) \div 2
         IN  IF mid * mid <= v THEN SqrtBetween(v, mid, hi)
             ELSE SqrtBetween(v, lo, mid - 1)

mpz_sqrt(v) == SqrtBetween(v, 0, IF v < 46340 THEN v ELSE 46340)

mpz_is_square(value) ==
    IF value < 0 THEN FALSE
    ELSE LET root == mpz_sqrt(value) IN root * root = value

mpz_is_fibonacci(value) ==
    IF value < 0 THEN FALSE
    ELSE IF value <= 1 THEN TRUE
    ELSE LET temp == value * value * 5
         IN  mpz_is_square(temp + 4) \/ mpz_is_square(temp - 4)

\* n is a power a^k of a with k >= 1.
RECURSIVE IsPowerOf(_, _)
IsPowerOf(n, a) ==
    IF n = a THEN TRUE
    ELSE IF n % a # 0 THEN FALSE
    ELSE IsPowerOf(n \div a, a)

\* mpz_perfect_power_p on a value above 1: a^k with a >= 2 and k >= 2.
mpz_is_perfect_power(value) ==
    IF value <= 1 THEN FALSE
    ELSE \E a \in 2..mpz_sqrt(value) : IsPowerOf(value, a)

mpq_has_pattern_component(config, value, check_num, check_den) ==
    \/ /\ check_num
       /\ \/ mpz_is_prime_signed(value.num)
          \/ /\ config.enable_twin_prime_trigger
             /\ mpz_is_prime_signed(value.num)
             /\ \/ mpz_is_prime_signed(value.num + 2)
                \/ mpz_is_prime_signed(value.num - 2)
          \/ config.enable_fibonacci_trigger /\ mpz_is_fibonacci(Abs(value.num))
          \/ config.enable_perfect_power_trigger
             /\ mpz_is_perfect_power(Abs(value.num))
    \/ /\ check_den
       /\ \/ mpz_is_prime_signed(value.den)
          \/ config.enable_fibonacci_trigger /\ mpz_is_fibonacci(value.den)
          \/ config.enable_perfect_power_trigger /\ mpz_is_perfect_power(value.den)

RatioTriggerModes == {"RATIO_TRIGGER_NONE", "RATIO_TRIGGER_GOLDEN",
                      "RATIO_TRIGGER_SQRT2", "RATIO_TRIGGER_PLASTIC",
                      "RATIO_TRIGGER_CUSTOM"}

ratio_bounds(mode) ==
    CASE mode = "RATIO_TRIGGER_GOLDEN" ->
           [lower |-> rational_set_si(3, 2), upper |-> rational_set_si(17, 10)]
      [] mode = "RATIO_TRIGGER_SQRT2" ->
           [lower |-> rational_set_si(13, 10), upper |-> rational_set_si(3, 2)]
      [] mode = "RATIO_TRIGGER_PLASTIC" ->
           [lower |-> rational_set_si(6, 5), upper |-> rational_set_si(7, 5)]
      [] OTHER ->
           [lower |-> rational_set_si(0, 1), upper |-> rational_set_si(0, 1)]

ratio_in_range(config, state) ==
    IF config.ratio_trigger_mode = "RATIO_TRIGGER_NONE" THEN FALSE
    ELSE IF rational_is_zero(state.beta) THEN FALSE
    ELSE LET d == rational_div(rational_init, state.upsilon, state.beta)
             ratio == d.r
         IN  IF ~d.ok THEN FALSE
             ELSE IF config.ratio_trigger_mode = "RATIO_TRIGGER_CUSTOM"
                     /\ config.enable_ratio_custom_range
             THEN /\ rational_cmp(ratio, config.ratio_custom_lower) > 0
                  /\ rational_cmp(ratio, config.ratio_custom_upper) < 0
             ELSE LET bounds == ratio_bounds(config.ratio_trigger_mode)
                  IN  /\ rational_cmp(ratio, bounds.lower) > 0
                      /\ rational_cmp(ratio, bounds.upper) < 0

\* The double num/den is compared with 0.5 and 2.0; for the magnitudes of
\* the model the comparison of the doubles is that of the exact quotients.
\* A ratio with denominator 0 is taken as 0.0.
ratio_threshold_outside(config, state) ==
    IF ~config.enable_ratio_threshold_psi THEN FALSE
    ELSE IF rational_is_zero(state.beta) THEN FALSE
    ELSE LET d == rational_div(rational_init, state.upsilon, state.beta)
             ratio == d.r
         IN  IF ~d.ok THEN FALSE
             ELSE IF ratio.den = 0 THEN TRUE
             ELSE \/ 2 * Abs(ratio.num) < Abs(ratio.den)
                  \/ Abs(ratio.num) > 2 * Abs(ratio.den)

\* should_fire_psi that requests psi in INHIBIT_RHO mode when the latch is set.
should_fire_psi_inhibit_inverted(config, state, is_memory_step, allow_stack) ==
    IF ~is_memory_step \/ ~allow_stack THEN FALSE
    ELSE CASE config.psi_mode = "PSI_MODE_MSTEP"       -> TRUE
           [] config.psi_mode = "PSI_MODE_RHO_ONLY"    -> state.rho_pending
           [] config.psi_mode = "PSI_MODE_MSTEP_RHO"   -> TRUE
           [] config.psi_mode = "PSI_MODE_INHIBIT_RHO" -> state.rho_pending

should_fire_psi(config, state, is_memory_step, allow_stack) ==
    IF ~is_memory_step \/ ~allow_stack THEN FALSE
    ELSE CASE config.psi_mode = "PSI_MODE_MSTEP"       -> TRUE
           [] config.psi_mode = "PSI_MODE_RHO_ONLY"    -> state.rho_pending
           [] config.psi_mode = "PSI_MODE_MSTEP_RHO"   -> TRUE
           [] config.psi_mode = "PSI_MODE_INHIBIT_RHO" -> ~state.rho_pending
           [] OTHER                                    -> FALSE

stack_allows_psi(config, state) ==
    IF ~config.enable_stack_depth_modes THEN TRUE
    ELSE state.koppa_stack_size = 2 \/ state.koppa_stack_size = 4

(***************************************************************************)
(* simulate.c: run_simulation, one action per microtick                    *)
(***************************************************************************)
EPhaseMicroticks == {1, 4, 7, 10}

MPhaseMicroticks == {2, 5, 8, 11}

RPhaseMicroticks == {3, 6, 9}

\* The head of the microtick loop body: the tick is stored when the tick
\* loop enters microtick 1, the per-microtick flags are cleared and the
\* koppa sample is reset.
clear_microtick_flags(state, microtick) ==
    [state EXCEPT
       !.tick                   = IF microtick = 1 THEN @ + 1 ELSE @,
       !.ratio_triggered_recent = FALSE,
       !.psi_triple_recent      = FALSE,
       !.dual_engine_last_step  = FALSE,
       !.koppa_sample_index     = -1,
       !.koppa_sample           = rational_set(state.koppa),
       !.ratio_threshold_recent = FALSE,
       !.psi_strength_applied   = FALSE]

\* case 'E' of the phase switch.  Returns the state, the event flags and the
\* engine_step call that was made.
epsilon_phase(config, state, microtick) ==
    LET s1 == [state EXCEPT !.epsilon = rational_set(state.upsilon)]
        e  == engine_step(config, s1, microtick)
        hit == /\ config.prime_target = "PRIME_ON_NEW_UPSILON"
               /\ mpq_has_pattern_component(config, e.state.upsilon, TRUE, FALSE)
        forced == microtick = 10 /\ config.mt10_behavior = "MT10_FORCED_PSI"
    IN  [state |-> [e.state EXCEPT !.rho_pending = IF hit \/ forced THEN TRUE ELSE @],
         rho_event |-> hit \/ forced,
         psi_fired |-> FALSE,
         mu_zero |-> FALSE,
         forced_emission |-> microtick = 10,
         engine |-> <<[pre |-> s1, ok |-> e.ok, post |-> e.state]>>,
         psi |-> <<>>,
         koppa |-> <<>>]

\* memory_phase_psi that calls psi_transform on every request, whatever the
\* history depth.
memory_phase_psi_ungated(config, state) ==
    LET hit == /\ config.prime_target = "PRIME_ON_MEMORY"
               /\ mpq_has_pattern_component(config, state.beta, TRUE, TRUE)
        s1 == [state EXCEPT !.rho_pending = IF hit THEN TRUE ELSE @]
        allow_stack == stack_allows_psi(config, s1)
        ratio_triggered == ratio_in_range(config, s1)
        s2 == [s1 EXCEPT !.ratio_triggered_recent =
                             IF ratio_triggered THEN TRUE ELSE @]
        ratio_threshold == ratio_threshold_outside(config, s2)
        s3 == [s2 EXCEPT !.ratio_threshold_recent =
                             IF ratio_threshold THEN TRUE ELSE @]
        request_psi == \/ should_fire_psi(config, s1, TRUE, allow_stack)
                       \/ ratio_triggered
                       \/ ratio_threshold
        called == request_psi
        p == psi_transform(config, s3)
    IN  [state |-> IF called THEN p.state ELSE [s3 EXCEPT !.psi_recent = FALSE],
         rho_event |-> hit,
         psi_fired |-> IF called THEN p.ret ELSE FALSE,
         mu_zero |-> rational_is_zero(state.beta),
         request_psi |-> request_psi,
         allow_stack |-> allow_stack,
         psi |-> IF called
                 THEN <<[pre |-> s3, ret |-> p.ret, iters |-> p.iters,
                         post |-> p.state]>>
                 ELSE <<>>]

\* The part of case 'M' up to and including the psi decision and the call
\* of psi_transform.
memory_phase_psi(config, state) ==
    LET hit == /\ config.prime_target = "PRIME_ON_MEMORY"
               /\ mpq_has_pattern_component(config, state.beta, TRUE, TRUE)
        s1 == [state EXCEPT !.rho_pending = IF hit THEN TRUE ELSE @]
        allow_stack == stack_allows_psi(config, s1)
        ratio_triggered == ratio_in_range(config, s1)
        s2 == [s1 EXCEPT !.ratio_triggered_recent =
                             IF ratio_triggered THEN TRUE ELSE @]
        ratio_threshold == ratio_threshold_outside(config, s2)
        s3 == [s2 EXCEPT !.ratio_threshold_recent =
                             IF ratio_threshold THEN TRUE ELSE @]
        request_psi == \/ should_fire_psi(config, s1, TRUE, allow_stack)
                       \/ ratio_triggered
                       \/ ratio_threshold
        called == request_psi /\ allow_stack
        p == psi_transform(config, s3)
    IN  [state |-> IF called THEN p.state ELSE [s3 EXCEPT !.psi_recent = FALSE],
         rho_event |-> hit,
         psi_fired |-> IF called THEN p.ret ELSE FALSE,
         mu_zero |-> rational_is_zero(state.beta),
         request_psi |-> request_psi,
         allow_stack |-> allow_stack,
         psi |-> IF called
                 THEN <<[pre |-> s3, ret |-> p.ret, iters |-> p.iters,
                         post |-> p.state]>>
                 ELSE <<>>]

\* case 'M' with koppa_accrue called ahead of psi_transform.
memory_phase_koppa_first(config, m, microtick) ==
    LET before == IF m.psi # <<>> THEN m.psi[1].pre ELSE m.state
        k == koppa_accrue(config, before, FALSE, TRUE, microtick)
    IN  [state |-> [m.state EXCEPT !.koppa = k.state.koppa, !.rho_latched = FALSE],
         rho_event |-> m.rho_event,
         psi_fired |-> m.psi_fired,
         mu_zero |-> m.mu_zero,
         forced_emission |-> FALSE,
         engine |-> <<>>,
         psi |-> m.psi,
         koppa |-> <<[pre |-> before, psi_fired |-> FALSE,
                      is_memory_step |-> TRUE, trigger |-> k.trigger,
                      pushed |-> k.pushed, post |-> k.state]>>]

\* case 'M' of the phase switch; m is the result of memory_phase_psi.
memory_phase(config, m, microtick) ==
    LET k == koppa_accrue(config, m.state, m.psi_fired, TRUE, microtick)
    IN  [state |-> [k.state EXCEPT !.rho_latched = FALSE],
         rho_event |-> m.rho_event,
         psi_fired |-> m.psi_fired,
         mu_zero |-> m.mu_zero,
         forced_emission |-> FALSE,
         engine |-> <<>>,
         psi |-> m.psi,
         koppa |-> <<[pre |-> m.state, psi_fired |-> m.psi_fired,
                      is_memory_step |-> TRUE, trigger |-> k.trigger,
                      pushed |-> k.pushed, post |-> k.state]>>]

\* case 'R' that clears the pending latch together with rho_latched.
reset_phase_clears_latch(config, state, microtick) ==
    LET k == koppa_accrue(config, state, FALSE, FALSE, microtick)
    IN  [state |-> [k.state EXCEPT !.psi_recent = FALSE, !.rho_pending = FALSE,
                                   !.rho_latched = FALSE],
         rho_event |-> FALSE,
         psi_fired |-> FALSE,
         mu_zero |-> FALSE,
         forced_emission |-> FALSE,
         engine |-> <<>>,
         psi |-> <<>>,
         koppa |-> <<[pre |-> state, psi_fired |-> FALSE,
                      is_memory_step |-> FALSE, trigger |-> k.trigger,
                      pushed |-> k.pushed, post |-> k.state]>>]

\* case 'R' of the phase switch.
reset_phase(config, state, microtick) ==
    LET k == koppa_accrue(config, state, FALSE, FALSE, microtick)
    IN  [state |-> [k.state EXCEPT !.psi_recent = FALSE, !.rho_latched = FALSE],
         rho_event |-> FALSE,
         psi_fired |-> FALSE,
         mu_zero |-> FALSE,
         forced_emission |-> FALSE,
         engine |-> <<>>,
         psi |-> <<>>,
         koppa |-> <<[pre |-> state, psi_fired |-> FALSE,
                      is_memory_step |-> FALSE, trigger |-> k.trigger,
                      pushed |-> k.pushed, post |-> k.state]>>]

\* History of the run: psi_transform has applied an exchange in this
\* microtick (the call r made) or in an earlier one.
PsiHasFired(earlier, r) ==
    \/ earlier.op = "microtick" /\ earlier.psi_has_fired
    \/ r.psi # <<>> /\ \E i \in DOMAIN r.psi[1].iters : r.psi[1].iters[i].ok

\* What emit_outputs hands to the observer after a microtick, with the calls
\* the microtick made and the history of the run.
Snapshot(r, tick, microtick, phase, before, earlier) ==
    [op |-> "microtick", tick |-> tick, microtick |-> microtick,
     phase |-> phase, before |-> before,
     psi_has_fired |-> PsiHasFired(earlier, r),
     rho_event |-> r.rho_event, psi_fired |-> r.psi_fired,
     mu_zero |-> r.mu_zero, forced_emission |-> r.forced_emission,
     engine |-> r.engine, psi |-> r.psi, koppa |-> r.koppa]

\* Values above this magnitude are not handed to the pattern detection of
\* the E phase nor to koppa_accrue after a psi burst.
MidMag == MaxMag * MaxMag * MaxMag

(***************************************************************************)
(* Spec: complete runs of run_simulation.                                  *)
(***************************************************************************)
PrimeTargets == {"PRIME_ON_MEMORY", "PRIME_ON_NEW_UPSILON", "PRIME_ON_KOPPA"}

\* Mode selections every feature set is run with.
FewModes ==
    [e : EngineModes, p : {"PSI_MODE_MSTEP", "PSI_MODE_RHO_ONLY"},
     k : {"KOPPA_MODE_ACCUMULATE"}, t : {"KOPPA_ON_ALL_MU"}]
    \cup [e : EngineModes, p : {"PSI_MODE_MSTEP"},
          k : {"KOPPA_MODE_DUMP"}, t : {"KOPPA_ON_PSI"}]

\* Mode selections the defaults of config_init are run with.
AllModes == [e : EngineModes, p : PsiModes, k : KoppaModes, t : KoppaTriggers]

WithModes(c, m) ==
    [c EXCEPT !.engine_mode = m.e, !.psi_mode = m.p, !.koppa_mode = m.k,
              !.koppa_trigger = m.t]

\* Feature selections, each a change of the defaults of config_init.
FeatureSets ==
    { [config_init EXCEPT !.enable_modular_wrap = TRUE, !.modulus_bound = 3],
      [config_init EXCEPT !.enable_modular_wrap = TRUE, !.koppa_wrap_threshold = 2],
      [config_init EXCEPT !.dual_track_mode = TRUE,
                          !.engine_upsilon = "ENGINE_TRACK_MULTI",
                          !.engine_beta = "ENGINE_TRACK_SLIDE"],
      [config_init EXCEPT !.enable_asymmetric_cascade = TRUE],
      [config_init EXCEPT !.enable_stack_depth_modes = TRUE,
                          !.multi_level_koppa = TRUE],
      [config_init EXCEPT !.enable_stack_depth_modes = TRUE,
                          !.multi_level_koppa = TRUE,
                          !.ratio_trigger_mode = "RATIO_TRIGGER_CUSTOM",
                          !.enable_ratio_custom_range = TRUE,
                          !.ratio_custom_lower = rational_set_si(1, 2),
                          !.ratio_custom_upper = rational_set_si(2, 1)],
      [config_init EXCEPT !.enable_stack_depth_modes = TRUE],
      [config_init EXCEPT !.multi_level_koppa = TRUE],
      [config_init EXCEPT !.multi_level_koppa = TRUE,
                          !.enable_modular_wrap = TRUE, !.modulus_bound = 5],
      [config_init EXCEPT !.enable_koppa_gated_engine = TRUE],
      [config_init EXCEPT !.enable_delta_cross_propagation = TRUE],
      [config_init EXCEPT !.enable_delta_cross_propagation = TRUE,
                          !.enable_delta_koppa_offset = TRUE],
      [config_init EXCEPT !.enable_sign_flip = TRUE,
                          !.sign_flip_mode = "SIGN_FLIP_ALWAYS"],
      [config_init EXCEPT !.enable_sign_flip = TRUE,
                          !.sign_flip_mode = "SIGN_FLIP_ALTERNATE"],
      [config_init EXCEPT !.enable_epsilon_phi_triangle = TRUE],
      [config_init EXCEPT !.triple_psi_mode = TRUE],
      [config_init EXCEPT !.enable_conditional_triple_psi = TRUE],
      [config_init EXCEPT !.enable_psi_strength_parameter = TRUE],
      [config_init EXCEPT !.prime_target = "PRIME_ON_NEW_UPSILON",
                          !.enable_twin_prime_trigger = TRUE,
                          !.enable_fibonacci_trigger = TRUE,
                          !.enable_perfect_power_trigger = TRUE],
      [config_init EXCEPT !.enable_fibonacci_trigger = TRUE,
                          !.enable_perfect_power_trigger = TRUE],
      [config_init EXCEPT !.prime_target = "PRIME_ON_KOPPA",
                          !.mt10_behavior = "MT10_NONE"],
      [config_init EXCEPT !.ratio_trigger_mode = "RATIO_TRIGGER_GOLDEN"],
      [config_init EXCEPT !.ratio_trigger_mode = "RATIO_TRIGGER_CUSTOM",
                          !.enable_ratio_custom_range = TRUE,
                          !.ratio_custom_lower = rational_set_si(1, 2),
                          !.ratio_custom_upper = rational_set_si(2, 1)],
      [config_init EXCEPT !.enable_ratio_threshold_psi = TRUE] }

\* Mode selections under which psi and koppa stay idle until tick 5, so that
\* the registers change by the engine steps alone.
QuietModes ==
    [e : EngineModes, p : {"PSI_MODE_RHO_ONLY"},
     k : {"KOPPA_MODE_ACCUMULATE"}, t : {"KOPPA_ON_PSI"}]

\* Mode selections under which the history grows by one entry per M
\* microtick, so that M microticks meet every depth from 0 to 4.
StepModes ==
    [e : EngineModes, p : {"PSI_MODE_MSTEP"}, k : KoppaModes,
     t : {"KOPPA_ON_MSTEP"}]

\* Mode selections under which a set latch keeps psi from being requested.
InhibitModes ==
    [e : {"ENGINE_MODE_ADD", "ENGINE_MODE_MULTI"}, p : {"PSI_MODE_INHIBIT_RHO"},
     k : {"KOPPA_MODE_ACCUMULATE"}, t : {"KOPPA_ON_ALL_MU"}]

SchedConfigs ==
    { WithModes(config_init, m) : m \in AllModes }
    \cup { WithModes(f, m) : f \in FeatureSets, m \in InhibitModes }
    \cup { WithModes(f, m) : f \in FeatureSets, m \in FewModes }
    \cup { WithModes(f, m) :
               f \in {g \in FeatureSets :
                         \/ g.enable_stack_depth_modes
                         \/ g.multi_level_koppa /\ g.enable_modular_wrap},
               m \in StepModes }
    \cup { WithModes(f, m) : f \in {g \in FeatureSets : g.enable_sign_flip},
                             m \in QuietModes }

\* Seed triples <<upsilon, beta, koppa>> as parse_rational_string stores
\* them: 0/d becomes 0/0, n/0 is kept.
Seeds ==
    { <<Rat(1, 1), Rat(1, 1), Rat(0, 0)>>,
      <<Rat(1, 1), Rat(1, 1), Rat(1, 1)>>,
      <<Rat(1, 1), Rat(2, 1), Rat(1, 1)>>,
      <<Rat(2, 1), Rat(3, 1), Rat(5, 1)>>,
      <<Rat(3, 2), Rat(1, 1), Rat(1, 2)>>,
      <<Rat(-1, 1), Rat(2, 1), Rat(1, 1)>>,
      <<Rat(-3, 1), Rat(1, 1), Rat(1, 1)>>,
      <<Rat(0, 0), Rat(1, 1), Rat(1, 1)>>,
      <<Rat(0, 0), Rat(0, 0), Rat(0, 0)>>,
      <<Rat(2, 0), Rat(3, 2), Rat(3, 2)>> }

Init ==
    /\ \E c \in SchedConfigs, seed \in Seeds :
          cfg = [c EXCEPT !.ticks = MaxTicks,
                          !.initial_upsilon = seed[1],
                          !.initial_beta = seed[2],
                          !.initial_koppa = seed[3]]
    /\ st = state_reset(state_init, cfg)
    /\ mt = 1
    /\ pc = "sim"
    /\ obs = NoCall
    /\ pushed = <<>>

\* The loop conditions with a run that ends at the first failed call.
LoopRunsAbortOnFailure ==
    /\ pc = "sim"
    /\ mt = 1 => st.tick < cfg.ticks
    /\ ~(/\ obs.op = "microtick"
         /\ \/ obs.engine # <<>> /\ ~obs.engine[1].ok
            \/ obs.psi # <<>> /\ ~obs.psi[1].ret)

\* The loop conditions of run_simulation before the microtick mt.
LoopRuns == pc = "sim" /\ (mt = 1 => st.tick < cfg.ticks)

NextMicrotick == IF mt = 11 THEN 1 ELSE mt + 1

EPhase ==
    /\ LoopRuns
    /\ mt \in EPhaseMicroticks
    /\ RegsFit(st, MaxMag)
    /\ LET s0 == clear_microtick_flags(st, mt)
           r  == epsilon_phase(cfg, s0, mt)
       IN  /\ cfg.prime_target = "PRIME_ON_NEW_UPSILON"
                => RatFits(r.engine[1].post.upsilon, MidMag)
           /\ st' = r.state
           /\ obs' = Snapshot(r, s0.tick, mt, "E", st, obs)
    /\ mt' = NextMicrotick
    /\ UNCHANGED <<cfg, pc, pushed>>

MPhase ==
    /\ LoopRuns
    /\ mt \in MPhaseMicroticks
    /\ RegsFit(st, MaxMag)
    /\ LET s0 == clear_microtick_flags(st, mt)
           m  == memory_phase_psi(cfg, s0)
           r  == memory_phase(cfg, m, mt)
       IN  /\ RegsFit(m.state, MidMag)
           /\ st' = r.state
           /\ obs' = Snapshot(r, s0.tick, mt, "M", st, obs)
           /\ pushed' = pushed \o r.koppa[1].pushed
    /\ mt' = NextMicrotick
    /\ UNCHANGED <<cfg, pc>>

\* RPhase with the psi_recent flag left to whatever the memory held.
RPhaseStaleFlag ==
    /\ LoopRuns
    /\ mt \in RPhaseMicroticks
    /\ RegsFit(st, MaxMag)
    /\ LET s0 == clear_microtick_flags(st, mt)
           r  == reset_phase(cfg, s0, mt)
       IN  /\ \E flag \in BOOLEAN : st' = [r.state EXCEPT !.psi_recent = flag]
           /\ obs' = Snapshot(r, s0.tick, mt, "R", st, obs)
           /\ pushed' = pushed \o r.koppa[1].pushed
    /\ mt' = NextMicrotick
    /\ UNCHANGED <<cfg, pc>>

RPhase ==
    /\ LoopRuns
    /\ mt \in RPhaseMicroticks
    /\ RegsFit(st, MaxMag)
    /\ LET s0 == clear_microtick_flags(st, mt)
           r  == reset_phase(cfg, s0, mt)
       IN  /\ st' = r.state
           /\ obs' = Snapshot(r, s0.tick, mt, "R", st, obs)
           /\ pushed' = pushed \o r.koppa[1].pushed
    /\ mt' = NextMicrotick
    /\ UNCHANGED <<cfg, pc>>

Next == EPhase \/ MPhase \/ RPhase

Spec == Init /\ [][Next]_vars

(***************************************************************************)
(* Claims about complete runs, checked under Spec.                         *)
(***************************************************************************)
\* A rational obeys the zero rule when its numerator is 0 exactly when its
\* denominator is 0.
ZeroRule(q) == (q.num = 0) <=> (q.den = 0)

SeedsObeyZeroRule ==
    /\ ZeroRule(cfg.initial_upsilon)
    /\ ZeroRule(cfg.initial_beta)
    /\ ZeroRule(cfg.initial_koppa)

EngineCalled == obs.op = "microtick" /\ obs.engine # <<>>

\* C2: whenever engine_step returns false, upsilon, beta, delta_upsilon,
\* delta_beta, previous_upsilon and previous_beta hold after the call
\* exactly the numerators and denominators they held before it.
EngineStepFailureAtomic ==
    (EngineCalled /\ ~obs.engine[1].ok)
        => LET c == obs.engine[1]
           IN  /\ c.post.upsilon = c.pre.upsilon
               /\ c.post.beta = c.pre.beta
               /\ c.post.delta_upsilon = c.pre.delta_upsilon
               /\ c.post.delta_beta = c.pre.delta_beta
               /\ c.post.previous_upsilon = c.pre.previous_upsilon
               /\ c.post.previous_beta = c.pre.previous_beta

(***************************************************************************)
(* One pass of the microtick loop as a function of state and microtick.    *)
(***************************************************************************)
\* The phase switch at the head of the microtick loop body.
phase_of(microtick) ==
    IF microtick \in EPhaseMicroticks THEN "E"
    ELSE IF microtick \in MPhaseMicroticks THEN "M"
    ELSE "R"

\* One pass of the microtick loop body: the state it leaves and the
\* snapshot it emits.
run_microtick(config, state, microtick, earlier) ==
    LET s0 == clear_microtick_flags(state, microtick)
        r  == CASE phase_of(microtick) = "E" -> epsilon_phase(config, s0, microtick)
                [] phase_of(microtick) = "M" ->
                     memory_phase(config, memory_phase_psi(config, s0), microtick)
                [] OTHER -> reset_phase(config, s0, microtick)
    IN  [state |-> r.state,
         obs   |-> Snapshot(r, s0.tick, microtick, phase_of(microtick), state,
                           earlier)]

\* Number of microticks the run has executed so far.
MicroticksDone ==
    IF mt = 1 THEN st.tick * 11 ELSE (st.tick - 1) * 11 + (mt - 1)

RunComplete == pc = "sim" /\ MicroticksDone = 11 * cfg.ticks

\* A call of engine_step or psi_transform in the last microtick failed.
LastCallFailed ==
    /\ obs.op = "microtick"
    /\ \/ obs.engine # <<>> /\ ~obs.engine[1].ok
       \/ obs.psi # <<>> /\ ~obs.psi[1].ret

\* Number of microticks the run had executed before the last one.
MicroticksDoneBefore ==
    IF obs.microtick = 1 THEN obs.before.tick * 11
    ELSE (obs.before.tick - 1) * 11 + (obs.microtick - 1)

\* C12: a run with ticks = T terminates after exactly 11 * T snapshots, one
\* per microtick, in increasing (tick, microtick) order with tick 1..T and
\* microtick 1..11, whatever engine_step and psi_transform returned on the
\* way: every microtick emits the snapshot numbered one above the previous
\* one, starting at (1, 1), and the loop conditions hold exactly until
\* snapshot (T, 11) was emitted.
RunEmitsAllSnapshots ==
    pc = "sim" =>
        /\ MicroticksDone <= 11 * cfg.ticks
        /\ obs.op = "none" => MicroticksDone = 0
        /\ obs.op = "microtick" =>
              /\ obs.tick \in 1..cfg.ticks
              /\ obs.microtick \in 1..11
              /\ (obs.tick - 1) * 11 + obs.microtick = MicroticksDone
              /\ MicroticksDone = MicroticksDoneBefore + 1
        /\ LoopRuns <=> ~RunComplete

RunEmitsAllSnapshotsWitness ==
    /\ RunComplete
    /\ obs.tick = MaxTicks /\ obs.microtick = 11
    /\ LastCallFailed
    /\ cfg.engine_mode = "ENGINE_MODE_SLIDE"
    /\ rational_is_zero(st.koppa)

\* C13: the phase of a microtick is a function of its number only (1, 4, 7,
\* 10 are E; 2, 5, 8, 11 are M; 3, 6, 9 are R); engine_step is called only
\* in E microticks, psi_transform only in M microticks, koppa_accrue in
\* exactly the M and R microticks, and within an M microtick koppa_accrue
\* runs on the state psi_transform left and is told its outcome.
PhaseSequencing ==
    obs.op = "microtick" =>
        /\ obs.phase = (IF obs.microtick \in {1, 4, 7, 10} THEN "E"
                        ELSE IF obs.microtick \in {2, 5, 8, 11} THEN "M"
                        ELSE "R")
        /\ obs.microtick \in {3, 6, 9} <=> obs.phase = "R"
        /\ obs.engine # <<>> => obs.phase = "E"
        /\ obs.psi # <<>> => obs.phase = "M"
        /\ obs.koppa # <<>> <=> obs.phase \in {"M", "R"}
        /\ obs.koppa # <<>> => obs.koppa[1].is_memory_step = (obs.phase = "M")
        /\ obs.psi # <<>> =>
              /\ obs.koppa[1].pre = obs.psi[1].post
              /\ obs.koppa[1].psi_fired = obs.psi[1].ret

PhaseSequencingWitness ==
    /\ obs.op = "microtick" /\ obs.phase = "M" /\ obs.microtick = 5
    /\ obs.psi # <<>> /\ obs.psi[1].ret
    /\ Regs(obs.psi[1].post) # Regs(obs.psi[1].pre)
    /\ obs.koppa[1].trigger
    /\ obs.koppa[1].post.koppa # obs.koppa[1].pre.koppa

(***************************************************************************)
(* SpecRational: the arithmetic of rational.c called on any two operands,  *)
(* held in upsilon and beta, with koppa as the destination r.  The         *)
(* operands include the forms only seeds and rational_init produce (n/0,   *)
(* 0/1) and negative denominators, which rational_div produces.            *)
(***************************************************************************)
RationalOperands == [num : -3..3, den : -2..3]

RationalDestinations == {Rat(0, 1), Rat(7, 5)}

InitRational ==
    /\ cfg = config_init
    /\ \E a \in RationalOperands, b \in RationalOperands,
          r \in RationalDestinations :
          st = [state_init EXCEPT !.upsilon = a, !.beta = b, !.koppa = r]
    /\ mt = 1
    /\ pc = "rational"
    /\ obs = NoCall
    /\ pushed = <<>>

\* What a call was given and what it left in r.
RationalObs(name, ok, r) ==
    [op |-> name, a |-> st.upsilon, b |-> st.beta, before |-> st.koppa,
     ok |-> ok, r |-> r]

RationalAdd ==
    /\ pc = "rational"
    /\ LET r == rational_add(st.upsilon, st.beta)
       IN  /\ st' = [st EXCEPT !.koppa = r]
           /\ obs' = RationalObs("rational_add", TRUE, r)
    /\ UNCHANGED <<cfg, mt, pc, pushed>>

RationalSub ==
    /\ pc = "rational"
    /\ LET r == rational_sub(st.upsilon, st.beta)
       IN  /\ st' = [st EXCEPT !.koppa = r]
           /\ obs' = RationalObs("rational_sub", TRUE, r)
    /\ UNCHANGED <<cfg, mt, pc, pushed>>

RationalMul ==
    /\ pc = "rational"
    /\ LET r == rational_mul(st.upsilon, st.beta)
       IN  /\ st' = [st EXCEPT !.koppa = r]
           /\ obs' = RationalObs("rational_mul", TRUE, r)
    /\ UNCHANGED <<cfg, mt, pc, pushed>>

RationalDiv ==
    /\ pc = "rational"
    /\ LET d == rational_div(st.koppa, st.upsilon, st.beta)
       IN  /\ st' = [st EXCEPT !.koppa = d.r]
           /\ obs' = RationalObs("rational_div", d.ok, d.r)
    /\ UNCHANGED <<cfg, mt, pc, pushed>>

RationalMod ==
    /\ pc = "rational"
    /\ LET r == rational_mod(st.upsilon, st.beta)
       IN  /\ st' = [st EXCEPT !.koppa = r]
           /\ obs' = RationalObs("rational_mod", TRUE, r)
    /\ UNCHANGED <<cfg, mt, pc, pushed>>

\* rational_cmp reads its operands and writes nothing.
RationalCmp ==
    /\ pc = "rational"
    /\ obs' = [op |-> "rational_cmp", a |-> st.upsilon, b |-> st.beta,
               before |-> st.koppa, ok |-> TRUE, r |-> st.koppa,
               result |-> rational_cmp(st.upsilon, st.beta)]
    /\ UNCHANGED <<cfg, st, mt, pc, pushed>>

NextRational ==
    \/ RationalAdd \/ RationalSub \/ RationalMul \/ RationalDiv \/ RationalMod
    \/ RationalCmp

SpecRational == InitRational /\ [][NextRational]_vars

(***************************************************************************)
(* Claims about rational.c, checked under SpecRational.                    *)
(***************************************************************************)
\* C14: for rational_add, rational_sub and rational_mul on operands with
\* denominators d1 and d2 the denominator of the result is exactly d1 * d2,
\* except that it is 0 when the numerator of the result is 0.
NoReduction ==
    obs.op \in {"rational_add", "rational_sub", "rational_mul"} =>
        obs.r.den = (IF obs.r.num = 0 THEN 0 ELSE obs.a.den * obs.b.den)

NoReductionWitness ==
    /\ obs.op = "rational_add"
    /\ obs.a = Rat(1, 2) /\ obs.b = Rat(1, 2)
    /\ obs.r = Rat(4, 4)
    /\ st.koppa = Rat(4, 4)

\* C15: rational_div(r, a, b) fails if and only if the numerator of b is 0,
\* whatever the denominator of b is; on failure r is left unmodified; on
\* success r is (a.num * b.den) / (a.den * b.num) passed through the zero
\* rule.
DivisionByNumerator ==
    obs.op = "rational_div" =>
        /\ obs.ok <=> obs.b.num # 0
        /\ ~obs.ok => obs.r = obs.before /\ st.koppa = obs.before
        /\ obs.ok =>
              LET n == obs.a.num * obs.b.den
                  d == obs.a.den * obs.b.num
              IN  obs.r = (IF n = 0 THEN Rat(0, 0) ELSE Rat(n, d))

DivisionByNumeratorWitness ==
    /\ obs.op = "rational_div"
    /\ obs.a = Rat(3, 2) /\ obs.b = Rat(2, 0)
    /\ obs.ok
    /\ obs.before = Rat(7, 5)
    /\ st.koppa = Rat(0, 0)

\* C16: rational_mod(r, a, b) with b the zero-rational sets r to a
\* unchanged, numerator and denominator, for every a.
ModuloByZeroIsIdentity ==
    (obs.op = "rational_mod" /\ obs.b.num = 0) =>
        obs.r = obs.a /\ st.koppa = obs.a

ModuloByZeroIsIdentityWitness ==
    /\ obs.op = "rational_mod"
    /\ obs.b = Rat(0, 0)
    /\ obs.a = Rat(3, 2)
    /\ obs.before = Rat(7, 5)
    /\ st.koppa = Rat(3, 2)

(***************************************************************************)
(* Claims about the koppa sample, checked under SpecKoppa.                 *)
(***************************************************************************)
\* The last call was koppa_accrue and left a non-empty multi-level history.
SampledFromHistory ==
    KoppaObserved /\ cfg.multi_level_koppa /\ st.koppa_stack_size >= 1

\* C17: with multi-level history enabled and non-empty, koppa_accrue at
\* microtick 5 samples history slot 2 if that slot is occupied, at microtick
\* 11 samples history slot 0 if occupied, and at any other microtick or with
\* the slot missing sets the sampled value to the current koppa with sampled
\* index -1.
KoppaSampleSlot2AtFive ==
    SampledFromHistory =>
        IF obs.call.microtick = 5 /\ st.koppa_stack_size >= 3
        THEN st.koppa_sample = st.koppa_stack[2] /\ st.koppa_sample_index = 2
        ELSE IF obs.call.microtick = 11
        THEN st.koppa_sample = st.koppa_stack[0] /\ st.koppa_sample_index = 0
        ELSE st.koppa_sample = st.koppa /\ st.koppa_sample_index = -1

\* C17 as the code has it: at microtick 5 slot 0 is sampled, at microtick 11
\* slot 2 if it is occupied, and at any other microtick or with slot 2
\* missing the sampled value is the current koppa with sampled index -1.
KoppaSampleSlot0AtFive ==
    SampledFromHistory =>
        IF obs.call.microtick = 5
        THEN st.koppa_sample = st.koppa_stack[0] /\ st.koppa_sample_index = 0
        ELSE IF obs.call.microtick = 11 /\ st.koppa_stack_size >= 3
        THEN st.koppa_sample = st.koppa_stack[2] /\ st.koppa_sample_index = 2
        ELSE st.koppa_sample = st.koppa /\ st.koppa_sample_index = -1

KoppaSampleSlot0AtFiveWitness ==
    /\ SampledFromHistory
    /\ obs.call.microtick = 11
    /\ st.koppa_stack_size >= 3
    /\ st.koppa_sample_index = 2
    /\ st.koppa_sample = st.koppa_stack[2]
    /\ st.koppa_stack[2] # st.koppa_stack[0]
    /\ st.koppa_stack[2] # st.koppa

(***************************************************************************)
(* Claims about the koppa trigger in complete runs, checked under Spec.    *)
(***************************************************************************)
\* The last microtick called koppa_accrue.
KoppaCalled == obs.op = "microtick" /\ obs.koppa # <<>>

\* psi_transform returned true in the last microtick.
PsiFired == obs.op = "microtick" /\ obs.psi_fired

TriggerAfterPsi == cfg.koppa_trigger = "KOPPA_ON_MU_AFTER_PSI"

\* C18: with koppa_trigger = KOPPA_ON_MU_AFTER_PSI the koppa operation is
\* triggered in a koppa_accrue call (M and R microticks) exactly when psi
\* has fired in the run: on every call from the first psi fire on, through
\* every later psi fire, and on no call before the first psi fire.
KoppaTriggeredAfterPsi ==
    TriggerAfterPsi /\ KoppaCalled =>
        (obs.koppa[1].trigger <=> obs.psi_has_fired)

(***************************************************************************)
(* SpecEngine: engine_step called once on any registers, history depth,    *)
(* microtick and engine configuration.                                     *)
(***************************************************************************)
\* The mode selections: one shared mode or two per-register modes.
EngineBaseConfigs ==
    { [config_init EXCEPT !.engine_mode = e] : e \in EngineModes }
    \cup { [config_init EXCEPT !.dual_track_mode = TRUE,
                               !.engine_upsilon = m[1], !.engine_beta = m[2]] :
             m \in { <<"ENGINE_TRACK_MULTI", "ENGINE_TRACK_SLIDE">>,
                     <<"ENGINE_TRACK_SLIDE", "ENGINE_TRACK_ADD">> } }

\* Every combination of the three modulations, and each later transformation
\* of the step on its own.
EngineConfigs ==
    { [c EXCEPT !.enable_asymmetric_cascade = a,
                !.enable_stack_depth_modes = s,
                !.enable_koppa_gated_engine = g] :
        c \in EngineBaseConfigs, a \in BOOLEAN, s \in BOOLEAN, g \in BOOLEAN }
    \cup { [c EXCEPT !.enable_delta_cross_propagation = TRUE,
                     !.enable_delta_koppa_offset = k] :
             c \in EngineBaseConfigs, k \in BOOLEAN }
    \cup { [c EXCEPT !.enable_sign_flip = TRUE, !.sign_flip_mode = f] :
             c \in EngineBaseConfigs,
             f \in {"SIGN_FLIP_ALWAYS", "SIGN_FLIP_ALTERNATE"} }
    \cup { [c EXCEPT !.enable_modular_wrap = TRUE, !.modulus_bound = w[1],
                     !.koppa_wrap_threshold = w[2]] :
             c \in EngineBaseConfigs, w \in {<<3, 0>>, <<0, 2>>, <<3, 2>>} }

\* Register pairs <<upsilon, beta>>: equal, cancelling, unreduced, zero and
\* with a zero denominator.
EnginePairs ==
    { <<Rat(1, 1), Rat(1, 1)>>, <<Rat(-1, 1), Rat(1, 1)>>,
      <<Rat(2, 3), Rat(1, 2)>>, <<Rat(0, 0), Rat(1, 1)>>,
      <<Rat(2, 0), Rat(3, 2)>> }

\* Values of koppa on both sides of the thresholds 10 and 100 of the gate.
EngineKoppas ==
    { Rat(0, 0), Rat(1, 1), Rat(3, 2), Rat(2, 0), Rat(-50, 1), Rat(150, 1) }

\* The E microticks and one microtick without an entry in the cascade table.
EngineMicroticks == EPhaseMicroticks \cup {5}

InitEngine ==
    /\ cfg \in EngineConfigs
    /\ \E p \in EnginePairs, k \in EngineKoppas, depth \in 0..4,
          previous \in {Rat(1, 2), Rat(1, 1)} :
          LET seeded == state_reset(state_init,
                            [cfg EXCEPT !.initial_upsilon = p[1],
                                        !.initial_beta = p[2],
                                        !.initial_koppa = k])
          IN  st = [seeded EXCEPT
                      !.previous_upsilon = previous,
                      !.koppa_stack_size = depth,
                      !.koppa_stack = [i \in 0..3 |->
                                          IF i < depth THEN Rat(1, 1)
                                          ELSE seeded.koppa_stack[i]]]
    /\ mt \in EngineMicroticks
    /\ pc = "engine"
    /\ obs = NoCall
    /\ pushed = <<>>

EngineStep ==
    /\ pc = "engine"
    /\ LET e == engine_step(cfg, st, mt)
           modes == engine_track_modes(cfg, st, mt)
       IN  /\ st' = e.state
           /\ obs' = [op |-> "engine_step", microtick |-> mt, pre |-> st,
                      ok |-> e.ok, post |-> e.state,
                      ups_mode |-> modes.ups, beta_mode |-> modes.beta]
    /\ pc' = "engine_done"
    /\ UNCHANGED <<cfg, mt, pushed>>

NextEngine == EngineStep

SpecEngine == InitEngine /\ [][NextEngine]_vars

\* engine_step has returned and did not take the delta-add path.
TrackFormulasUsed ==
    /\ pc = "engine_done"
    /\ ~(~cfg.dual_track_mode /\ cfg.engine_mode = "ENGINE_MODE_DELTA_ADD")

\* The value a track mode gives for a register.
TrackFormula(mode, current, counterpart, koppa) ==
    CASE mode = "ENGINE_TRACK_ADD" ->
           rational_add(rational_add(current, counterpart), koppa)
      [] mode = "ENGINE_TRACK_MULTI" ->
           rational_mul(current, rational_add(counterpart, koppa))
      [] mode = "ENGINE_TRACK_SLIDE" ->
           rational_div(current, rational_add(current, counterpart), koppa).r

\* koppa or current + counterpart is the zero-rational.
SlideOnZero(current, counterpart, koppa) ==
    \/ rational_is_zero(koppa)
    \/ rational_is_zero(rational_add(current, counterpart))

\* No transformation of the step after the formulas is enabled.
NoLaterTransformation ==
    /\ ~cfg.enable_delta_cross_propagation
    /\ ~(cfg.enable_sign_flip /\ cfg.sign_flip_mode # "SIGN_FLIP_NONE")
    /\ ~cfg.enable_modular_wrap

\* C19: with delta-add off a successful engine_step sets upsilon and beta to
\* the formula of their track mode over the registers before the step (ADD:
\* current + counterpart + koppa, MULTIPLY: current * (counterpart + koppa),
\* SLIDE: (current + counterpart) / koppa), passed through the enabled
\* cross-propagation, sign flip and modulus bound; a SLIDE register whose
\* koppa or current + counterpart is the zero-rational makes the step fail,
\* only a SLIDE register can, and a failed step replaces neither register.
EngineFormulas ==
    TrackFormulasUsed =>
        LET pre == obs.pre
            u == TrackFormula(obs.ups_mode, pre.upsilon, pre.beta, pre.koppa)
            b == TrackFormula(obs.beta_mode, pre.beta, pre.upsilon, pre.koppa)
            deltas == [pre EXCEPT
                         !.delta_upsilon = rational_sub(pre.upsilon, pre.previous_upsilon),
                         !.delta_beta    = rational_sub(pre.beta, pre.previous_beta)]
            crossed == apply_delta_cross(cfg, deltas, u, b)
            flipped == apply_sign_flip(cfg, pre, crossed.upsilon, crossed.beta)
            bound   == IF cfg.enable_modular_wrap THEN cfg.modulus_bound ELSE 0
            slide_on_zero ==
                \/ /\ obs.ups_mode = "ENGINE_TRACK_SLIDE"
                   /\ SlideOnZero(pre.upsilon, pre.beta, pre.koppa)
                \/ /\ obs.beta_mode = "ENGINE_TRACK_SLIDE"
                   /\ SlideOnZero(pre.beta, pre.upsilon, pre.koppa)
        IN  /\ slide_on_zero => ~obs.ok
            /\ ~obs.ok => /\ "ENGINE_TRACK_SLIDE" \in {obs.ups_mode, obs.beta_mode}
                          /\ obs.post.upsilon = pre.upsilon
                          /\ obs.post.beta = pre.beta
            /\ obs.ok /\ NoLaterTransformation =>
                   obs.post.upsilon = u /\ obs.post.beta = b
            /\ obs.ok => /\ obs.post.upsilon = rational_mod_bound(flipped.upsilon, bound)
                         /\ obs.post.beta = rational_mod_bound(flipped.beta, bound)

\* A dual-track step: upsilon = 2/3 * (1/2 + 3/2) = 16/12 by MULTIPLY and
\* beta = (1/2 + 2/3) / (3/2) = 14/18 by SLIDE.
EngineFormulasWitness ==
    /\ TrackFormulasUsed
    /\ obs.ok
    /\ obs.ups_mode = "ENGINE_TRACK_MULTI"
    /\ obs.beta_mode = "ENGINE_TRACK_SLIDE"
    /\ obs.pre.upsilon = Rat(2, 3) /\ obs.pre.beta = Rat(1, 2)
    /\ obs.pre.koppa = Rat(3, 2)
    /\ st.upsilon = Rat(16, 12)
    /\ st.beta = Rat(14, 18)

\* The entry of the asymmetric cascade table for a microtick and a register.
CascadeTable(microtick, register) ==
    CASE microtick = 1  -> IF register = "upsilon" THEN "ENGINE_TRACK_MULTI"
                           ELSE "ENGINE_TRACK_ADD"
      [] microtick = 4  -> IF register = "upsilon" THEN "ENGINE_TRACK_ADD"
                           ELSE "ENGINE_TRACK_SLIDE"
      [] microtick = 7  -> IF register = "upsilon" THEN "ENGINE_TRACK_SLIDE"
                           ELSE "ENGINE_TRACK_MULTI"
      [] microtick = 10 -> "ENGINE_TRACK_ADD"

\* The track mode of a register by precedence: the last enabled rule.
ModeByPrecedence(register) ==
    LET magnitude == Abs(obs.pre.koppa.num)
        depth == obs.pre.koppa_stack_size
    IN  IF cfg.enable_koppa_gated_engine
        THEN (IF magnitude < 10 THEN "ENGINE_TRACK_SLIDE"
              ELSE IF magnitude < 100 THEN "ENGINE_TRACK_MULTI"
              ELSE "ENGINE_TRACK_ADD")
        ELSE IF cfg.enable_stack_depth_modes
        THEN (IF depth <= 1 THEN "ENGINE_TRACK_ADD"
              ELSE IF depth \in 2..3 THEN "ENGINE_TRACK_MULTI"
              ELSE "ENGINE_TRACK_SLIDE")
        ELSE IF cfg.enable_asymmetric_cascade /\ obs.microtick \in {1, 4, 7, 10}
        THEN CascadeTable(obs.microtick, register)
        ELSE IF cfg.dual_track_mode
        THEN (IF register = "upsilon" THEN cfg.engine_upsilon ELSE cfg.engine_beta)
        ELSE CASE cfg.engine_mode = "ENGINE_MODE_ADD"   -> "ENGINE_TRACK_ADD"
               [] cfg.engine_mode = "ENGINE_MODE_MULTI" -> "ENGINE_TRACK_MULTI"
               [] cfg.engine_mode = "ENGINE_MODE_SLIDE" -> "ENGINE_TRACK_SLIDE"

\* C20: the track mode engine_step uses for a register is the configured
\* (shared or dual) mode, overridden by the asymmetric cascade table at
\* microticks 1, 4, 7, 10 if enabled, then by the stack depth rule (depth <= 1
\* ADD, 2-3 MULTIPLY, 4 SLIDE) if enabled, then by the koppa gate (|koppa
\* numerator| < 10 SLIDE, < 100 MULTIPLY, else ADD) if enabled: the last
\* enabled rule wins for both registers.
ModulationPrecedence ==
    TrackFormulasUsed =>
        /\ obs.ups_mode = ModeByPrecedence("upsilon")
        /\ obs.beta_mode = ModeByPrecedence("beta")

\* All three modulations enabled over a dual configuration: at microtick 4
\* with depth 4 and koppa -50/1 the gate gives MULTIPLY to both registers,
\* where the depth rule gives SLIDE and the table ADD and SLIDE.
ModulationPrecedenceWitness ==
    /\ TrackFormulasUsed
    /\ cfg.dual_track_mode
    /\ cfg.engine_upsilon = "ENGINE_TRACK_SLIDE"
    /\ cfg.enable_asymmetric_cascade
    /\ cfg.enable_stack_depth_modes
    /\ cfg.enable_koppa_gated_engine
    /\ obs.microtick = 4
    /\ obs.pre.koppa_stack_size = 4
    /\ obs.pre.koppa = Rat(-50, 1)
    /\ obs.ups_mode = "ENGINE_TRACK_MULTI"
    /\ obs.beta_mode = "ENGINE_TRACK_MULTI"
    /\ obs.ok

(***************************************************************************)
(* Claims about the delta-add path and the commit of engine_step, checked  *)
(* under SpecEngine.                                                       *)
(***************************************************************************)
\* engine_step has returned and took the delta-add path.
DeltaAddUsed ==
    /\ pc = "engine_done"
    /\ ~cfg.dual_track_mode
    /\ cfg.engine_mode = "ENGINE_MODE_DELTA_ADD"

\* C21: with engine_mode DELTA_ADD and dual-track off, engine_step always
\* succeeds and, whatever modulations are enabled and whatever koppa is,
\* commits upsilon + (upsilon - previous_upsilon) and beta + (beta -
\* previous_beta) of the registers before the step, passed through the
\* enabled cross-propagation, sign flip and modulus bound.
DeltaAddBypassesFormulas ==
    DeltaAddUsed =>
        LET pre == obs.pre
            du == rational_sub(pre.upsilon, pre.previous_upsilon)
            db == rational_sub(pre.beta, pre.previous_beta)
            u  == rational_add(pre.upsilon, du)
            b  == rational_add(pre.beta, db)
            deltas  == [pre EXCEPT !.delta_upsilon = du, !.delta_beta = db]
            crossed == apply_delta_cross(cfg, deltas, u, b)
            flipped == apply_sign_flip(cfg, pre, crossed.upsilon, crossed.beta)
            bound   == IF cfg.enable_modular_wrap THEN cfg.modulus_bound ELSE 0
        IN  /\ obs.ok
            /\ NoLaterTransformation =>
                   obs.post.upsilon = u /\ obs.post.beta = b
            /\ obs.post.upsilon = rational_mod_bound(flipped.upsilon, bound)
            /\ obs.post.beta = rational_mod_bound(flipped.beta, bound)

\* All three modulations enabled and koppa 0/0, where every SLIDE formula
\* fails: upsilon = 2/3 + (2/3 - 1/2) = 2/3 + 1/6 = 15/18.
DeltaAddBypassesFormulasWitness ==
    /\ DeltaAddUsed
    /\ cfg.enable_asymmetric_cascade
    /\ cfg.enable_stack_depth_modes
    /\ cfg.enable_koppa_gated_engine
    /\ obs.pre.koppa = Rat(0, 0)
    /\ obs.ups_mode = "ENGINE_TRACK_SLIDE"
    /\ obs.pre.upsilon = Rat(2, 3)
    /\ obs.pre.previous_upsilon = Rat(1, 2)
    /\ obs.ok
    /\ st.upsilon = Rat(15, 18)

\* C22: after every successful engine_step with modular wrap disabled,
\* previous_upsilon and previous_beta are the upsilon and beta before the
\* step, and delta_upsilon and delta_beta are the unreduced rational_sub
\* results upsilon - previous_upsilon and beta - previous_beta of the
\* committed registers.
CommitBookkeeping ==
    pc = "engine_done" /\ obs.ok /\ ~cfg.enable_modular_wrap =>
        /\ st.previous_upsilon = obs.pre.upsilon
        /\ st.previous_beta = obs.pre.beta
        /\ st.delta_upsilon = rational_sub(st.upsilon, st.previous_upsilon)
        /\ st.delta_beta = rational_sub(st.beta, st.previous_beta)

\* A MULTIPLY step from 2/3, 1/2, 3/2 with previous_upsilon 1/2: upsilon
\* becomes 16/12 and delta_upsilon 16/12 - 2/3 = 24/36, where the delta
\* before the commit was 2/3 - 1/2 = 1/6.
CommitBookkeepingWitness ==
    /\ pc = "engine_done"
    /\ obs.ok
    /\ ~cfg.enable_modular_wrap
    /\ obs.pre.upsilon = Rat(2, 3)
    /\ obs.pre.previous_upsilon = Rat(1, 2)
    /\ st.upsilon = Rat(16, 12)
    /\ st.previous_upsilon = Rat(2, 3)
    /\ st.delta_upsilon = Rat(24, 36)

(***************************************************************************)
(* Claims about the sign flip over the engine steps of a run, checked      *)
(* under Spec.                                                             *)
(***************************************************************************)
\* The number of the engine_step call of the last microtick within the run:
\* four calls per tick, at microticks 1, 4, 7, 10.
EngineStepNumber == (obs.tick - 1) * 4 + (obs.microtick - 1) \div 3 + 1

\* The values the step computed before the sign flip (no feature set of
\* SchedConfigs enables the sign flip together with cross-propagation, a
\* modulation or modular wrap).
BeforeSignFlip ==
    LET pre == obs.engine[1].pre
        mode == convert_engine_mode(cfg.engine_mode)
    IN  IF cfg.engine_mode = "ENGINE_MODE_DELTA_ADD"
        THEN [upsilon |-> rational_add(pre.upsilon,
                              rational_sub(pre.upsilon, pre.previous_upsilon)),
              beta    |-> rational_add(pre.beta,
                              rational_sub(pre.beta, pre.previous_beta))]
        ELSE [upsilon |-> TrackFormula(mode, pre.upsilon, pre.beta, pre.koppa),
              beta    |-> TrackFormula(mode, pre.beta, pre.upsilon, pre.koppa)]

SignFlipStep ==
    /\ EngineCalled
    /\ cfg.enable_sign_flip
    /\ cfg.sign_flip_mode # "SIGN_FLIP_NONE"

\* C23: with sign flip enabled, mode ALWAYS negates both new values on every
\* engine step; mode ALTERNATE negates them exactly on the steps entered
\* with the polarity flag false and toggles the flag on every step, so the
\* flag is false on entry to the 1st, 3rd, 5th, ... step of a run and the
\* values committed by a successful step are negated on those steps only.
SignFlipAlternates ==
    SignFlipStep =>
        LET pre  == obs.engine[1].pre
            post == obs.engine[1].post
            odd  == EngineStepNumber % 2 = 1
            flip == cfg.sign_flip_mode = "SIGN_FLIP_ALWAYS" \/ ~pre.sign_flip_polarity
            plain == BeforeSignFlip
        IN  /\ cfg.sign_flip_mode = "SIGN_FLIP_ALTERNATE" =>
                   /\ pre.sign_flip_polarity = ~odd
                   /\ post.sign_flip_polarity = ~pre.sign_flip_polarity
                   /\ flip = odd
            /\ obs.engine[1].ok =>
                   /\ post.upsilon = IF flip THEN rational_negate(plain.upsilon)
                                     ELSE plain.upsilon
                   /\ post.beta = IF flip THEN rational_negate(plain.beta)
                                  ELSE plain.beta

\* The third engine step of an ALTERNATE run, successful with
\* non-zero values: the third negates.
SignFlipAlternatesWitness ==
    /\ SignFlipStep
    /\ cfg.sign_flip_mode = "SIGN_FLIP_ALTERNATE"
    /\ EngineStepNumber = 3
    /\ obs.engine[1].ok
    /\ BeforeSignFlip.upsilon.num # 0
    /\ BeforeSignFlip.beta.num # 0
    /\ st.upsilon = rational_negate(BeforeSignFlip.upsilon)
    /\ st.beta = rational_negate(BeforeSignFlip.beta)
    /\ st.sign_flip_polarity

(***************************************************************************)
(* Claims about the modular wrap, checked under SpecEngine.                *)
(***************************************************************************)
\* The values engine_step commits when neither cross-propagation nor the
\* sign flip is enabled.
CommittedValues ==
    LET pre == obs.pre
    IN  IF DeltaAddUsed
        THEN [upsilon |-> rational_add(pre.upsilon,
                              rational_sub(pre.upsilon, pre.previous_upsilon)),
              beta    |-> rational_add(pre.beta,
                              rational_sub(pre.beta, pre.previous_beta))]
        ELSE [upsilon |-> TrackFormula(obs.ups_mode, pre.upsilon, pre.beta, pre.koppa),
              beta    |-> TrackFormula(obs.beta_mode, pre.beta, pre.upsilon, pre.koppa)]

\* The numerator reduced modulo m with its sign kept, the denominator as it
\* was.
BoundNumerator(q, m) ==
    IF m > 0 THEN Rat(Sgn(q.num) * (Abs(q.num) % m), q.den) ELSE q

WrapEnabledStep == pc = "engine_done" /\ cfg.enable_modular_wrap

\* C24: modular wrap acts only after a successful commit: a failed step
\* leaves upsilon, beta and koppa as they were; after a successful step with
\* wrap enabled, koppa is first replaced by koppa mod beta (the committed
\* beta) if koppa_wrap_threshold > 0 and |koppa numerator| is above it, and
\* then, with a modulus bound m > 0, the numerators of upsilon, beta and
\* koppa are replaced by sign(num) * (|num| mod m) with the denominators
\* untouched; with wrap disabled a step never changes koppa.
ModularWrap ==
    /\ pc = "engine_done" /\ ~obs.ok =>
           /\ st.upsilon = obs.pre.upsilon
           /\ st.beta = obs.pre.beta
           /\ st.koppa = obs.pre.koppa
    /\ pc = "engine_done" /\ ~cfg.enable_modular_wrap => st.koppa = obs.pre.koppa
    /\ WrapEnabledStep /\ obs.ok =>
           LET m == cfg.modulus_bound
               committed == CommittedValues
               wrapped ==
                   IF /\ cfg.koppa_wrap_threshold > 0
                      /\ Abs(obs.pre.koppa.num) > cfg.koppa_wrap_threshold
                   THEN rational_mod(obs.pre.koppa, committed.beta)
                   ELSE obs.pre.koppa
           IN  /\ st.upsilon = BoundNumerator(committed.upsilon, m)
               /\ st.beta = BoundNumerator(committed.beta, m)
               /\ st.koppa = BoundNumerator(wrapped, m)

\* Threshold 2 and bound 3 after an ADD step from 1/1, 1/1 with koppa -50/1:
\* upsilon and beta are committed as -48/1 and stored as 0/1; koppa is
\* wrapped modulo -48/1 and then bounded.
ModularWrapWitness ==
    /\ WrapEnabledStep
    /\ obs.ok
    /\ cfg.koppa_wrap_threshold = 2
    /\ cfg.modulus_bound = 3
    /\ obs.ups_mode = "ENGINE_TRACK_ADD"
    /\ obs.pre.upsilon = Rat(1, 1) /\ obs.pre.beta = Rat(1, 1)
    /\ obs.pre.koppa = Rat(-50, 1)
    /\ CommittedValues.beta = Rat(-48, 1)
    /\ st.beta = Rat(0, 1)
    /\ st.koppa = BoundNumerator(rational_mod(Rat(-50, 1), Rat(-48, 1)), 3)
    /\ st.koppa # obs.pre.koppa

(***************************************************************************)
(* Claims about the strength and the triple decision of a psi burst,       *)
(* checked under SpecPsi.                                                  *)
(***************************************************************************)
\* psi_transform has returned.
PsiReturned == obs.op = "psi_transform"

\* The registers of a state whose absolute numerator is a prime.
PrimeRegisters(s) ==
    { q \in {"upsilon", "beta", "koppa"} :
         Abs(s[q].num) >= 2 /\ IsPrime(Abs(s[q].num)) }

\* The number of iterations a call entered in state s is to attempt.
BurstLength(s) ==
    IF cfg.enable_psi_strength_parameter /\ s.rho_pending
    THEN (IF PrimeRegisters(s) = {} THEN 1 ELSE Cardinality(PrimeRegisters(s)))
    ELSE 1

AllIterationsFired == \A i \in DOMAIN obs.iters : obs.iters[i].ok

\* C25: a call of psi_transform that may fire attempts 1 iteration unless
\* the strength feature is enabled and the latch is set, and then as many as
\* there are registers among upsilon, beta, koppa with a prime absolute
\* numerator (at least 1): between 1 and 3 iterations, all of them unless
\* one fails and ends the loop; psi_strength_applied is set exactly when
\* that number exceeds 1, and a call that may not fire attempts none.
PsiStrength ==
    PsiReturned =>
        LET n == BurstLength(obs.pre)
            ran == Len(obs.iters)
        IN  IF psi_can_fire(cfg, obs.pre)
            THEN /\ n \in 1..3
                 /\ ran \in 1..n
                 /\ AllIterationsFired => ran = n
                 /\ ran < n => ~obs.iters[ran].ok
                 /\ st.psi_strength_applied = (n > 1)
            ELSE ran = 0 /\ ~st.psi_strength_applied

\* Two prime numerators (2 and 3, koppa 1/1) with the latch set: two
\* iterations, both fired.
PsiStrengthWitness ==
    /\ PsiReturned
    /\ cfg.enable_psi_strength_parameter
    /\ obs.pre.rho_pending
    /\ obs.pre.upsilon = Rat(2, 1) /\ obs.pre.beta = Rat(3, 1)
    /\ obs.pre.koppa = Rat(1, 1)
    /\ Len(obs.iters) = 2
    /\ AllIterationsFired
    /\ st.psi_strength_applied

\* Triple-psi mode is configured, or the conditional-triple feature is
\* enabled and all three registers have prime numerators before the
\* iteration.
TripleByConfiguration(it) ==
    \/ cfg.triple_psi_mode
    \/ /\ cfg.enable_conditional_triple_psi
       /\ PrimeRegisters(it.before) = {"upsilon", "beta", "koppa"}

\* C26: in a psi burst of strength >= 3 every one of the final three
\* iterations uses the triple transform; any other iteration uses it exactly
\* when triple-psi mode is configured or the conditional-triple feature is
\* enabled and all three registers currently have prime numerators.
TripleInFinalThree ==
    PsiReturned =>
        \A j \in DOMAIN obs.iters :
            LET it == obs.iters[j]
                n  == BurstLength(obs.pre)
            IN  it.triple <=> \/ n >= 3 /\ it.i >= n - 3
                              \/ TripleByConfiguration(it)

\* C26 as the code has it: in a psi burst of strength >= 3 the iteration
\* with index strength - 3 (the third from the end, which is the first
\* iteration as the strength is at most 3) uses the triple transform; any
\* other iteration uses it exactly when triple-psi mode is configured or the
\* conditional-triple feature is enabled and all three registers currently
\* have prime numerators.
TripleAtThirdFromEnd ==
    PsiReturned =>
        \A j \in DOMAIN obs.iters :
            LET it == obs.iters[j]
                n  == BurstLength(obs.pre)
            IN  it.triple <=> \/ n >= 3 /\ it.i = n - 3
                              \/ TripleByConfiguration(it)

\* A burst of strength 3 from 2/1, 3/1, 5/1 without triple-psi mode: the
\* first iteration is a triple, the second and the third are standard.
TripleAtThirdFromEndWitness ==
    /\ PsiReturned
    /\ ~cfg.triple_psi_mode
    /\ BurstLength(obs.pre) = 3
    /\ Len(obs.iters) = 3
    /\ obs.iters[1].triple /\ obs.iters[1].ok
    /\ ~obs.iters[2].triple /\ obs.iters[2].ok
    /\ ~obs.iters[3].triple

(***************************************************************************)
(* Claims about the two branches of koppa_accrue, checked under SpecKoppa. *)
(***************************************************************************)
\* C27: when the trigger of koppa_accrue does not fire, koppa, the history
\* slots and the history depth are unchanged by the call: nothing but the
\* sampled value, the sampled index and the psi-recent flag may differ from
\* the state before the call.
UntriggeredIsReadOnly ==
    KoppaObserved /\ ~obs.trigger =>
        /\ st.koppa = obs.pre.koppa
        /\ st.koppa_stack = obs.pre.koppa_stack
        /\ st.koppa_stack_size = obs.pre.koppa_stack_size
        /\ st = [obs.pre EXCEPT !.koppa_sample = st.koppa_sample,
                                !.koppa_sample_index = st.koppa_sample_index,
                                !.psi_recent = st.psi_recent]

\* An untriggered call at microtick 5 on a non-empty history: the sample
\* moves to slot 0 while koppa and the history stay.
UntriggeredIsReadOnlyWitness ==
    /\ KoppaObserved
    /\ ~obs.trigger
    /\ cfg.multi_level_koppa
    /\ obs.call.microtick = 5
    /\ obs.pre.koppa_stack_size >= 2
    /\ st.koppa_stack_size = obs.pre.koppa_stack_size
    /\ st.koppa_sample_index = 0
    /\ obs.pre.koppa_sample_index # 0
    /\ st.koppa_sample = st.koppa_stack[0]
    /\ st.koppa_sample # st.koppa
    /\ st.koppa = obs.pre.koppa

\* The value the configured operation leaves in koppa.
KoppaAfterOperation(s) ==
    CASE cfg.koppa_mode = "KOPPA_MODE_DUMP"       -> Rat(0, 0)
      [] cfg.koppa_mode = "KOPPA_MODE_POP"        -> s.epsilon
      [] cfg.koppa_mode = "KOPPA_MODE_ACCUMULATE" -> rational_add(s.koppa, s.epsilon)

\* The history of s with val pushed: appended below four entries, else the
\* oldest entry dropped.
HistoryWith(s, val) ==
    IF s.koppa_stack_size < 4
    THEN [size  |-> s.koppa_stack_size + 1,
          slots |-> [s.koppa_stack EXCEPT ![s.koppa_stack_size] = val]]
    ELSE [size  |-> 4,
          slots |-> [i \in 0..3 |-> IF i = 3 THEN val ELSE s.koppa_stack[i + 1]]]

PsiDepths == {2, 4}

\* C29: with the stack-depth feature enabled, psi_transform is invoked on an
\* M microtick only if the koppa history depth at that microtick is 2 or 4,
\* also when a ratio trigger forces the request, so no psi fire is reported
\* at any other depth.
StackDepthGatesPsi ==
    obs.op = "microtick" /\ cfg.enable_stack_depth_modes =>
        /\ obs.psi # <<>> =>
               /\ obs.phase = "M"
               /\ obs.psi[1].pre.koppa_stack_size = obs.before.koppa_stack_size
               /\ obs.before.koppa_stack_size \in PsiDepths
        /\ obs.psi_fired =>
               /\ obs.psi # <<>>
               /\ obs.before.koppa_stack_size \in PsiDepths

\* A psi fire at depth 2 with the feature enabled.
StackDepthGatesPsiWitness ==
    /\ obs.op = "microtick"
    /\ cfg.enable_stack_depth_modes
    /\ obs.phase = "M"
    /\ obs.psi # <<>>
    /\ obs.psi_fired
    /\ obs.before.koppa_stack_size = 2

(***************************************************************************)
(* Claims about rational_mod with a non-zero modulus, checked under        *)
(* SpecRational.                                                           *)
(***************************************************************************)
\* rational_mod has returned for operands with non-zero denominators and a
\* modulus with a non-zero numerator.
ModByNonZero ==
    /\ obs.op = "rational_mod"
    /\ obs.a.den # 0
    /\ obs.b.num # 0 /\ obs.b.den # 0

\* The numerator of a - b * floor(a / b) over the denominator a.den * b.den.
ModNumerator(a, b) ==
    LET floor == FloorDiv(a.num * b.den, a.den * b.num)
    IN  a.num * b.den - floor * b.num * a.den

\* C30: for every a and every non-zero b, rational_mod(r, a, b) yields r with
\* the rational value a - b * floor(a / b); in particular, when
\* 0 <= a / b < 1 the result has the value of a and is the zero-rational
\* only if a is.
ModIsRemainder ==
    ModByNonZero =>
        LET a == obs.a
            b == obs.b
            n == ModNumerator(a, b)
        IN  IF n = 0
            THEN obs.r.num = 0
            ELSE /\ obs.r.den # 0
                 /\ obs.r.num * (a.den * b.den) = n * obs.r.den

(***************************************************************************)
(* Comparison, checked under SpecRational.                                 *)
(***************************************************************************)
\* C31: for all a and b with non-zero denominators, negative denominators
\* included, rational_cmp(a, b) is negative, zero or positive exactly when
\* the rational value of a is less than, equal to or greater than that of b.
\* The sign of the value of a minus that of b is the sign of the cross
\* difference times the sign of the product of the denominators.
CmpIsValueOrder ==
    (obs.op = "rational_cmp" /\ obs.a.den # 0 /\ obs.b.den # 0) =>
        Sgn(obs.result) =
            Sgn(obs.a.num * obs.b.den - obs.b.num * obs.a.den)
                * Sgn(obs.a.den * obs.b.den)

\* C32: for rational_add, rational_sub and rational_mul, if either operand
\* is the zero-rational 0/0 the result is 0/0 whatever the other operand is.
ZeroRationalAbsorbs ==
    (/\ obs.op \in {"rational_add", "rational_sub", "rational_mul"}
     /\ (obs.a = Rat(0, 0) \/ obs.b = Rat(0, 0))) =>
        obs.r = Rat(0, 0) /\ st.koppa = Rat(0, 0)

ZeroRationalAbsorbsWitness ==
    /\ obs.op = "rational_add"
    /\ obs.a = Rat(3, 2) /\ obs.b = Rat(0, 0)
    /\ obs.before = Rat(7, 5)
    /\ obs.r = Rat(0, 0) /\ st.koppa = Rat(0, 0)

(***************************************************************************)
(* Absorbing states of complete runs, checked under Spec.                  *)
(***************************************************************************)
\* upsilon, beta and koppa are all the zero-rational.
AllZero(s) ==
    s.upsilon = Rat(0, 0) /\ s.beta = Rat(0, 0) /\ s.koppa = Rat(0, 0)

\* C33: for every configuration, if upsilon, beta and koppa are all the
\* zero-rational at a microtick boundary, they are all the zero-rational at
\* the next boundary, and so at every later boundary of the run.
AllZeroIsAbsorbing ==
    (obs.op = "microtick" /\ AllZero(obs.before)) => AllZero(st)

AllZeroIsAbsorbingWitness ==
    /\ obs.op = "microtick"
    /\ AllZero(obs.before)
    /\ obs.before.tick >= 1
    /\ obs.engine # <<>>
    /\ AllZero(st)

\* The run uses the delta-add update for both tracks.
DeltaAddRun ==
    cfg.engine_mode = "ENGINE_MODE_DELTA_ADD" /\ ~cfg.dual_track_mode

\* C34: in every run with engine_mode DELTA_ADD and dual-track off, for any
\* seeds, upsilon and beta are the zero-rational in the snapshot of tick 1
\* microtick 1 and in every later snapshot.
DeltaAddCollapse ==
    (obs.op = "microtick" /\ DeltaAddRun) =>
        st.upsilon = Rat(0, 0) /\ st.beta = Rat(0, 0)

DeltaAddCollapseWitness ==
    /\ obs.op = "microtick" /\ DeltaAddRun
    /\ obs.tick = 1 /\ obs.microtick = 1
    /\ obs.before.upsilon = Rat(2, 1) /\ obs.before.beta = Rat(3, 1)
    /\ obs.before.previous_upsilon = Rat(2, 1)
    /\ obs.engine[1].ok
    /\ st.upsilon = Rat(0, 0) /\ st.beta = Rat(0, 0)

\* C35: once rho_pending is set it stays set at every following microtick
\* boundary, across ticks, until an iteration of psi_transform succeeds; no
\* scheduler phase and no failed or skipped psi clears it.
\* The latch is clear after a microtick entered with it set only if that
\* microtick called psi_transform and the first iteration of the burst
\* applied an exchange.
LatchPersists ==
    (obs.op = "microtick" /\ obs.before.rho_pending /\ ~st.rho_pending) =>
        /\ obs.psi # <<>>
        /\ obs.psi[1].iters # <<>>
        /\ obs.psi[1].iters[1].ok

\* A latch set in an earlier tick survives an M microtick whose psi_transform
\* call attempted an exchange and failed.
LatchPersistsWitness ==
    /\ obs.op = "microtick"
    /\ obs.tick >= 2
    /\ obs.before.rho_pending
    /\ obs.psi # <<>> /\ obs.psi[1].iters # <<>> /\ ~obs.psi[1].iters[1].ok
    /\ st.rho_pending

\* The run inhibits psi on a set latch and has both ratio triggers disabled.
InhibitRun ==
    /\ cfg.psi_mode = "PSI_MODE_INHIBIT_RHO"
    /\ cfg.ratio_trigger_mode = "RATIO_TRIGGER_NONE"
    /\ ~cfg.enable_ratio_threshold_psi

LatchGatedRun == cfg.psi_mode \in {"PSI_MODE_RHO_ONLY", "PSI_MODE_MSTEP_RHO"}

\* The microtick just executed reported a psi fire or applied an exchange.
PsiFiredOrExchanged ==
    \/ obs.psi_fired
    \/ obs.psi # <<>> /\ \E i \in DOMAIN obs.psi[1].iters : obs.psi[1].iters[i].ok

HistoryDepthMonotone ==
    /\ st.koppa_stack_size \in 0..4
    /\ obs.op = "microtick" =>
          st.koppa_stack_size >= obs.before.koppa_stack_size
    /\ ~cfg.multi_level_koppa => st.koppa_stack_size = 0
    /\ (/\ obs.op = "microtick"
        /\ cfg.enable_stack_depth_modes
        /\ ~cfg.multi_level_koppa) => obs.psi = <<>> /\ ~obs.psi_fired

\* A push on a full history: the depth stays 4.
HistoryDepthMonotoneWitness ==
    /\ obs.op = "microtick"
    /\ obs.before.koppa_stack_size = 4
    /\ obs.koppa # <<>> /\ obs.koppa[1].pushed # <<>>
    /\ st.koppa_stack_size = 4
    /\ st.koppa_stack[3] = obs.koppa[1].pushed[1]

\* C39: in every snapshot of an M or R microtick, koppa_sample_index is -1,
\* 0 or 2; if it is -1 then koppa_sample equals koppa, and otherwise the
\* index is below the history depth, koppa_sample equals that history slot,
\* and the microtick is 5 or 11.
SampleConsistency ==
    (obs.op = "microtick" /\ obs.phase \in {"M", "R"}) =>
        /\ st.koppa_sample_index \in {-1, 0, 2}
        /\ st.koppa_sample_index = -1 => st.koppa_sample = st.koppa
        /\ st.koppa_sample_index # -1 =>
              /\ st.koppa_sample_index < st.koppa_stack_size
              /\ st.koppa_sample = st.koppa_stack[st.koppa_sample_index]
              /\ obs.microtick \in {5, 11}

\* Microtick 11 samples history slot 2, whose value differs from koppa.
SampleConsistencyWitness ==
    /\ obs.op = "microtick" /\ obs.phase = "M"
    /\ obs.microtick = 11
    /\ st.koppa_sample_index = 2
    /\ st.koppa_stack_size >= 3
    /\ st.koppa_sample = st.koppa_stack[2]
    /\ st.koppa_sample # st.koppa

(***************************************************************************)
(* Bursts entered with registers that obey the zero rule, checked under    *)
(* SpecPsi.                                                                *)
(***************************************************************************)
\* The number of iterations of the observed call that applied an exchange.
ExchangesApplied == Cardinality({i \in DOMAIN obs.iters : obs.iters[i].ok})

EnteredUnderZeroRule ==
    /\ ZeroRule(obs.pre.upsilon)
    /\ ZeroRule(obs.pre.beta)
    /\ ZeroRule(obs.pre.koppa)

\* C40: when upsilon, beta and koppa satisfy the zero rule on entry, if the
\* first iteration of a psi_transform burst succeeds then every later
\* iteration of that burst also succeeds, so a call performs either 0 or
\* exactly `strength` exchanges.
BurstAllOrNothing ==
    (PsiReturned /\ EnteredUnderZeroRule) =>
        /\ (obs.iters # <<>> /\ obs.iters[1].ok) =>
              /\ AllIterationsFired
              /\ Len(obs.iters) = psi_strength(cfg, obs.pre)
        /\ ExchangesApplied \in {0, psi_strength(cfg, obs.pre)}

\* A burst of strength 2 entered with koppa = 0/0: both iterations are
\* standard and both succeed.
BurstAllOrNothingWitness ==
    /\ PsiReturned /\ EnteredUnderZeroRule
    /\ obs.pre.upsilon = Rat(2, 1) /\ obs.pre.beta = Rat(3, 2)
    /\ obs.pre.koppa = Rat(0, 0)
    /\ psi_strength(cfg, obs.pre) = 2
    /\ Len(obs.iters) = 2
    /\ obs.iters[1].ok /\ obs.iters[2].ok
    /\ ExchangesApplied = 2
    /\ st.upsilon # obs.pre.upsilon

====
